---- MODULE Spec2Model ----
(***************************************************************************)
(* txova-go-validation, package structval (validator.go) and package       *)
(* errors (errors.go).                                                     *)
(*                                                                         *)
(* Part I  (Spec, SpecFair): the process-wide validator singleton, its     *)
(*   sync.Once guarded construction and the three public entry points      *)
(*   Validate, ValidateVar and RegisterValidation called from concurrent   *)
(*   goroutines.                                                           *)
(* Part II (SpecV): one validation call at a time: the custom predicates,  *)
(*   the engine's per-field rule evaluation and the error translator.      *)
(***************************************************************************)
EXTENDS Integers, Sequences, FiniteSets, TLC

(***************************************************************************)
(* Bounds.                                                                 *)
(***************************************************************************)
NumProcs == 2
MaxCalls == 2

Procs == 1..NumProcs
NoProc == 0

(***************************************************************************)
(* The six tags initValidator registers, in registration order, and the    *)
(* predicate bound to each.                                                *)
(***************************************************************************)
CustomTags ==
  << "mz_phone", "mz_plate", "mz_location", "txova_pin", "txova_money", "txova_rating" >>

CustomFns ==
  << "validateMzPhone", "validateMzPlate", "validateMzLocation",
     "validateTxovaPin", "validateTxovaMoney", "validateTxovaRating" >>

CustomTagSet == { CustomTags[i] : i \in 1..Len(CustomTags) }

\* Tags a caller may name: the six above, one a caller registers itself
\* (validator_test.go, TestRegisterValidation) and one the test records use
\* that nothing registers (validator_test.go, VehicleInfo.Year).
TagUniverse == CustomTagSet \cup { "test_custom", "txova_vehicle_year" }

NoFn == "none"

\* validator.New(): a registry without a naming function and without custom tags.
NewValidator ==
  [ set |-> TRUE, tagNameFunc |-> FALSE, validations |-> [ t \in TagUniverse |-> NoFn ] ]

\* The package variable `validate` before initValidator ran: a nil pointer.
NilValidator ==
  [ set |-> FALSE, tagNameFunc |-> FALSE, validations |-> [ t \in TagUniverse |-> NoFn ] ]

VARIABLES
  onceDone,    \* once: 0 until the first Do has run f to completion, then 1
  onceM,       \* once: the goroutine holding the mutex, or NoProc
  validate,    \* the package variable `validate`
  pc,          \* per goroutine: where it is in its current call
  call,        \* per goroutine: the call it is making
  istep,       \* per goroutine: next statement of initValidator to run
  arrival,     \* per goroutine: when its call reached once.Do
  ret,         \* per goroutine: what its call returned
  ncalls,      \* calls started so far, by all goroutines
  initRuns,    \* how many times initValidator was entered
  crashed,     \* the runtime stopped the process (fatal error)
  vop,         \* Part II: the operation last run
  vin,         \* Part II: its input
  vout,        \* Part II: its result
  intSize,     \* the width in bits of int on the platform the build is for
  ve           \* a ValidationErrors collection a caller holds

vars ==
  << onceDone, onceM, validate, pc, call, istep, arrival, ret, ncalls, initRuns,
     crashed, vop, vin, vout, intSize, ve >>

concVars ==
  << onceDone, onceM, validate, pc, call, istep, arrival, ret, ncalls, initRuns,
     crashed >>

valVars == << vop, vin, vout, intSize, ve >>

\* var errs ValidationErrors: the nil collection.
NilCollection == [ isnil |-> TRUE, errs |-> << >> ]

\* The widths of int on the platforms Go builds for.
IntSizes == { 32, 64 }

NoCall == [ op |-> "none", tag |-> "", fn |-> NoFn ]

(***************************************************************************)
(* Part I.  sync.Once and the singleton.                                   *)
(***************************************************************************)

\* Part II's variables at rest.
ValIdle == vop = "none" /\ vin = << >> /\ vout = << >>

Init ==
  /\ onceDone = 0
  /\ onceM = NoProc
  /\ validate = NilValidator
  /\ pc = [ p \in Procs |-> "idle" ]
  /\ call = [ p \in Procs |-> NoCall ]
  /\ istep = [ p \in Procs |-> 0 ]
  /\ arrival = [ p \in Procs |-> "none" ]
  /\ ret = [ p \in Procs |-> "none" ]
  /\ ncalls = 0
  /\ initRuns = 0
  /\ crashed = FALSE
  /\ ValIdle
  /\ intSize = 64   \* Part I narrows no number: one platform stands for both
  /\ ve = NilCollection

\* Tags the modelled validation calls name, and the arguments the modelled
\* registrations pass.
UseTags == { "mz_phone", "test_custom", "txova_vehicle_year" }
RegArgs ==
  { << "test_custom", "customFn" >>, << "mz_phone", "customFn" >>,
    << "", "customFn" >>, << "test_custom", "nil" >> }

\* A goroutine enters one of the three entry points; each begins with
\* v := getValidator().
StartCall(p, c) ==
  /\ ~crashed
  /\ pc[p] = "idle"
  /\ ncalls < MaxCalls
  /\ call' = [ call EXCEPT ![p] = c ]
  /\ ncalls' = ncalls + 1
  /\ pc' = [ pc EXCEPT ![p] = "getValidator" ]
  /\ arrival' = [ arrival EXCEPT ![p] = "none" ]
  /\ ret' = [ ret EXCEPT ![p] = "none" ]
  /\ UNCHANGED << onceDone, onceM, validate, istep, initRuns, crashed, valVars >>

CallValidate(p) ==
  \E t \in UseTags : StartCall(p, [ op |-> "Validate", tag |-> t, fn |-> NoFn ])

CallValidateVar(p) ==
  \E t \in UseTags : StartCall(p, [ op |-> "ValidateVar", tag |-> t, fn |-> NoFn ])

CallRegisterValidation(p) ==
  \E a \in RegArgs :
    StartCall(p, [ op |-> "RegisterValidation", tag |-> a[1], fn |-> a[2] ])

\* When a call reaches once.Do relative to the first initialization.
ArrivalNow ==
  IF onceDone = 1 THEN "after" ELSE IF initRuns > 0 THEN "during" ELSE "before"

\* once.Do, fast path: `if o.done.Load() == 0 { o.doSlow(f) }`.
OnceDo(p) ==
  /\ ~crashed
  /\ pc[p] = "getValidator"
  /\ arrival' = [ arrival EXCEPT ![p] = ArrivalNow ]
  /\ pc' = [ pc EXCEPT ![p] = IF onceDone = 0 THEN "doSlow" ELSE "gotValidator" ]
  /\ UNCHANGED << onceDone, onceM, validate, call, istep, ret, ncalls, initRuns,
                  crashed, valVars >>

\* doSlow: o.m.Lock().
DoSlowLock(p) ==
  /\ ~crashed
  /\ pc[p] = "doSlow"
  /\ onceM = NoProc
  /\ onceM' = p
  /\ pc' = [ pc EXCEPT ![p] = "doSlowLocked" ]
  /\ UNCHANGED << onceDone, validate, call, istep, arrival, ret, ncalls, initRuns,
                  crashed, valVars >>

\* doSlow, under the lock: `if o.done.Load() == 0 { defer o.done.Store(1); f() }`.
doSlowRunsAlways(done) == TRUE

doSlowRuns(done) == done = 0

\* The value of once.done while f runs: the store is deferred until f returned.
doneEarly(done) == 1

doneWhileRunning(done) == done

DoSlowCheck(p) ==
  /\ ~crashed
  /\ pc[p] = "doSlowLocked"
  /\ IF doSlowRuns(onceDone)
       THEN /\ pc' = [ pc EXCEPT ![p] = "initValidator" ]
            /\ istep' = [ istep EXCEPT ![p] = 0 ]
            /\ initRuns' = initRuns + 1
            /\ onceDone' = doneWhileRunning(onceDone)
       ELSE /\ pc' = [ pc EXCEPT ![p] = "doSlowUnlock" ]
            /\ UNCHANGED << istep, initRuns, onceDone >>
  /\ UNCHANGED << onceM, validate, call, arrival, ret, ncalls, crashed, valVars >>

\* The engine's RegisterValidation on a registry: the tag's binding is set,
\* replacing one that exists; every other binding stays.
registerValidationFresh(reg, tag, fn) ==
  [ NewValidator EXCEPT !.validations[tag] = fn ]

registerValidation(reg, tag, fn) ==
  [ reg EXCEPT !.validations[tag] = fn ]

\* The statements of initValidator, one per step.
InitLast == Len(CustomTags) + 1

initStatement(reg, i) ==
  IF i = 0 THEN NewValidator
  ELSE IF i = 1 THEN [ reg EXCEPT !.tagNameFunc = TRUE ]
  ELSE registerValidation(reg, CustomTags[i - 1], CustomFns[i - 1])

InitStep(p) ==
  /\ ~crashed
  /\ pc[p] = "initValidator"
  /\ validate' = initStatement(validate, istep[p])
  /\ IF istep[p] = InitLast
       THEN /\ pc' = [ pc EXCEPT ![p] = "doSlowDone" ]
            /\ istep' = [ istep EXCEPT ![p] = 0 ]
       ELSE /\ istep' = [ istep EXCEPT ![p] = @ + 1 ]
            /\ UNCHANGED pc
  /\ UNCHANGED << onceDone, onceM, call, arrival, ret, ncalls, initRuns, crashed, valVars >>

\* doSlow's deferred o.done.Store(1), run when f has returned.
DoSlowDone(p) ==
  /\ ~crashed
  /\ pc[p] = "doSlowDone"
  /\ onceDone' = 1
  /\ pc' = [ pc EXCEPT ![p] = "doSlowUnlock" ]
  /\ UNCHANGED << onceM, validate, call, istep, arrival, ret, ncalls, initRuns,
                  crashed, valVars >>

\* doSlow's deferred o.m.Unlock(); getValidator then returns `validate`.
DoSlowUnlock(p) ==
  /\ ~crashed
  /\ pc[p] = "doSlowUnlock"
  /\ onceM' = NoProc
  /\ pc' = [ pc EXCEPT ![p] = "gotValidator" ]
  /\ UNCHANGED << onceDone, validate, call, istep, arrival, ret, ncalls, initRuns,
                  crashed, valVars >>

\* Validate and ValidateVar hand the value to the engine (v.Struct, v.Var),
\* which looks the rule names up in the registry's map while it builds the
\* rule chain of a type or rule expression it has not seen before.
EngineReadBegin(p) ==
  /\ ~crashed
  /\ pc[p] = "gotValidator"
  /\ call[p].op \in { "Validate", "ValidateVar" }
  /\ pc' = [ pc EXCEPT ![p] = "engineRead" ]
  /\ arrival' = [ arrival EXCEPT ![p] = "none" ]
  /\ UNCHANGED << onceDone, onceM, validate, call, istep, ret, ncalls,
                  initRuns, crashed, valVars >>

\* What the lookup ends in: a nil registry or a name without a binding makes
\* the engine panic, and the panic leaves Validate unrecovered.
lookupOutcome(reg, tag) ==
  IF ~reg.set \/ reg.validations[tag] = NoFn THEN "panicked" ELSE "returned"

EngineReadEnd(p) ==
  /\ ~crashed
  /\ pc[p] = "engineRead"
  /\ pc' = [ pc EXCEPT ![p] = lookupOutcome(validate, call[p].tag) ]
  /\ ret' = [ ret EXCEPT ![p] =
                IF lookupOutcome(validate, call[p].tag) = "returned" THEN "result" ELSE "none" ]
  /\ UNCHANGED << onceDone, onceM, validate, call, istep, arrival, ncalls, initRuns,
                  crashed, valVars >>

\* RegisterValidation: v.RegisterValidation(tag, fn). The engine refuses an
\* empty name and a nil function with an error and otherwise writes the map.
registrationRefused(tag, fn) == tag = "" \/ fn = "nil"

RegisterBegin(p) ==
  /\ ~crashed
  /\ pc[p] = "gotValidator"
  /\ call[p].op = "RegisterValidation"
  /\ IF registrationRefused(call[p].tag, call[p].fn)
       THEN /\ pc' = [ pc EXCEPT ![p] = "returned" ]
            /\ ret' = [ ret EXCEPT ![p] = "error" ]
       ELSE /\ pc' = [ pc EXCEPT ![p] = "engineWrite" ]
            /\ UNCHANGED ret
  /\ arrival' = [ arrival EXCEPT ![p] = "none" ]
  /\ UNCHANGED << onceDone, onceM, validate, call, istep, ncalls,
                  initRuns, crashed, valVars >>

EngineWriteEnd(p) ==
  /\ ~crashed
  /\ pc[p] = "engineWrite"
  /\ validate' = registerValidation(validate, call[p].tag, call[p].fn)
  /\ pc' = [ pc EXCEPT ![p] = "returned" ]
  /\ ret' = [ ret EXCEPT ![p] = "nil" ]
  /\ UNCHANGED << onceDone, onceM, call, istep, arrival, ncalls, initRuns,
                  crashed, valVars >>

\* The call has returned to its caller; the goroutine may call again.
Return(p) ==
  /\ ~crashed
  /\ pc[p] = "returned"
  /\ pc' = [ pc EXCEPT ![p] = "idle" ]
  /\ call' = [ call EXCEPT ![p] = NoCall ]
  /\ arrival' = [ arrival EXCEPT ![p] = "none" ]
  /\ ret' = [ ret EXCEPT ![p] = "none" ]
  /\ UNCHANGED << onceDone, onceM, validate, istep, ncalls, initRuns, crashed, valVars >>

\* Nothing orders a registration's map write against another goroutine's map
\* read or write. While the two overlap the reader may see the old or the new
\* binding (EngineReadEnd before or after EngineWriteEnd), or the runtime may
\* stop the process with "fatal error: concurrent map read and map write".
Racing(p, q) ==
  /\ p # q
  /\ pc[p] = "engineWrite"
  /\ pc[q] \in { "engineRead", "engineWrite" }

RaceFatal ==
  /\ ~crashed
  /\ \E p, q \in Procs : Racing(p, q)
  /\ crashed' = TRUE
  /\ UNCHANGED << onceDone, onceM, validate, pc, call, istep, arrival, ret, ncalls,
                  initRuns, valVars >>

\* The steps of a call once it has been made.
Step(p) ==
  \/ OnceDo(p)
  \/ DoSlowLock(p)
  \/ DoSlowCheck(p)
  \/ InitStep(p)
  \/ DoSlowDone(p)
  \/ DoSlowUnlock(p)
  \/ EngineReadBegin(p)
  \/ EngineReadEnd(p)
  \/ RegisterBegin(p)
  \/ EngineWriteEnd(p)
  \/ Return(p)

Next ==
  \/ \E p \in Procs : CallValidate(p)
  \/ \E p \in Procs : CallValidateVar(p)
  \/ \E p \in Procs : CallRegisterValidation(p)
  \/ \E p \in Procs : Step(p)
  \/ RaceFatal

Spec == Init /\ [][Next]_vars

\* Go's scheduler runs every runnable goroutine eventually.
SpecFair == Spec /\ \A p \in Procs : WF_vars(Step(p))

InCall(p) == pc[p] \notin { "idle", "returned", "panicked" }

PastGetValidator(p) ==
  pc[p] \in { "gotValidator", "engineRead", "engineWrite", "returned", "panicked" }

(***************************************************************************)
(* Part I, properties.                                                     *)
(***************************************************************************)

FullyInitialized(reg) ==
  /\ reg.set
  /\ reg.tagNameFunc
  /\ \A t \in CustomTagSet : reg.validations[t] # NoFn

\* The registry as initValidator leaves it.
AfterInit ==
  [ set |-> TRUE, tagNameFunc |-> TRUE,
    validations |->
      [ t \in TagUniverse |->
          IF t \in CustomTagSet
            THEN CustomFns[CHOOSE i \in 1..Len(CustomTags) : CustomTags[i] = t]
            ELSE NoFn ] ]

\* C1: under every interleaving of the three entry points initValidator is
\* entered at most once, every caller that is past getValidator finds it was
\* run exactly once, and a caller that reached once.Do during or after the
\* first run never runs it again.
C1_InitExactlyOnce ==
  /\ initRuns <= 1
  /\ \A p \in Procs : PastGetValidator(p) => initRuns = 1
  /\ \A p \in Procs :
       arrival[p] \in { "during", "after" } => pc[p] \notin { "initValidator", "doSlowDone" }

\* Two first-time callers both found once.done = 0 on the fast path, both went
\* through doSlow, and both are past getValidator after a single run.
C1_Witness ==
  \E p, q \in Procs :
    /\ p # q
    /\ arrival[p] = "before" /\ arrival[q] = "before"
    /\ pc[p] = "gotValidator" /\ pc[q] = "gotValidator"
    /\ initRuns = 1

\* C2: whenever a caller is past getValidator the registry exists and has its
\* naming function and all six custom tags, whether the caller reached once.Do
\* before, during or after the initialization.
C2_NoPartialRegistry ==
  \A p \in Procs : PastGetValidator(p) => FullyInitialized(validate)

\* A caller that reached once.Do while initValidator was running is past
\* getValidator.
C2_Witness ==
  \E p \in Procs :
    arrival[p] = "during" /\ pc[p] = "gotValidator" /\ FullyInitialized(validate)

\* C3: every call that has been made eventually returns its result to its
\* caller (in particular one that waited in once.Do for the first setup).
C3_EveryCallReturns ==
  \A p \in Procs : (pc[p] = "getValidator") ~> (pc[p] = "returned")

C5_NoUnsynchronizedAccess ==
  /\ ~crashed
  /\ \A p, q \in Procs : ~(pc[p] = "engineWrite" /\ pc[q] = "engineRead")

(***************************************************************************)
(* Part II.  Values, collaborators and the six custom predicates.          *)
(*                                                                         *)
(* A Go value as the engine sees it through reflection: kind is its        *)
(* reflect.Kind; s the text of a string; n the number of an integer kind,  *)
(* or ten times the number of a float kind (-269 is -26.9); sub the fields *)
(* of a struct or the elements of a slice, each with its name ("" for an   *)
(* element), kind and number; isnil tells a nil slice or interface; type   *)
(* is the name of its Go type, which for a defined type (type Name string) *)
(* differs from the kind; big tells a number too wide to write out: with   *)
(* big = k > 0 the number is n + 2^k, with big = -k < 0 it is n - 2^k.     *)
(***************************************************************************)
Str(s) ==
  [ kind |-> "string", type |-> "string", s |-> s, n |-> 0, big |-> 0,
    sub |-> << >>, isnil |-> FALSE ]

\* A value of a defined string type, as in `type Name string`.
NamedStr(type, s) ==
  [ kind |-> "string", type |-> type, s |-> s, n |-> 0, big |-> 0,
    sub |-> << >>, isnil |-> FALSE ]

Num(k, n) ==
  [ kind |-> k, type |-> k, s |-> "", n |-> n, big |-> 0, sub |-> << >>,
    isnil |-> FALSE ]

\* The number n + 2^k of kind k0 (k > 0), or n - 2^(-k) (k < 0).
BigNum(k0, n, k) ==
  [ kind |-> k0, type |-> k0, s |-> "", n |-> n, big |-> k, sub |-> << >>,
    isnil |-> FALSE ]

\* A field of a struct or an element of a slice; nan tells a float that is
\* not a number (math.NaN()).
Sub(name, k, n) == [ name |-> name, kind |-> k, n |-> n, nan |-> FALSE ]

SubNaN(name) == [ name |-> name, kind |-> "float64", n |-> 0, nan |-> TRUE ]

StructOf(fs) ==
  [ kind |-> "struct", type |-> "struct", s |-> "", n |-> 0, big |-> 0,
    sub |-> fs, isnil |-> FALSE ]

SliceOf(es) ==
  [ kind |-> "slice", type |-> "slice", s |-> "", n |-> 0, big |-> 0,
    sub |-> es, isnil |-> FALSE ]

NilSlice ==
  [ kind |-> "slice", type |-> "slice", s |-> "", n |-> 0, big |-> 0,
    sub |-> << >>, isnil |-> TRUE ]

\* An interface{} holding nothing.
NilValue ==
  [ kind |-> "invalid", type |-> "nil", s |-> "", n |-> 0, big |-> 0,
    sub |-> << >>, isnil |-> TRUE ]

\* validator_test.go: type Location struct { Lat float64; Lon float64 }.
Location(lat, lon) ==
  StructOf(<< Sub("Lat", "float64", lat), Sub("Lon", "float64", lon) >>)

IntKinds == { "int", "int8", "int16", "int32", "int64" }
UintKinds == { "uint", "uint8", "uint16", "uint32", "uint64" }
FloatKinds == { "float32", "float64" }

\* reflect.Value.String(): the text of a string, "<T Value>" for any other kind.
String(v) == IF v.kind = "string" THEN v.s ELSE "<" \o v.kind \o " Value>"

(***************************************************************************)
(* Strings. A TLA+ string is the sequence of the Go string's runes.        *)
(***************************************************************************)
DigitChars == << "0", "1", "2", "3", "4", "5", "6", "7", "8", "9" >>

isDigit(c) == \E i \in 1..Len(DigitChars) : DigitChars[i] = c

digitValue(c) == (CHOOSE i \in 1..Len(DigitChars) : DigitChars[i] = c) - 1

HasPrefix(s, p) == Len(s) >= Len(p) /\ SubSeq(s, 1, Len(p)) = p

isSpace(c) == c \in { " ", "\t", "\n", "\r" }

RECURSIVE TrimLeft(_)
TrimLeft(s) ==
  IF s # "" /\ isSpace(SubSeq(s, 1, 1)) THEN TrimLeft(SubSeq(s, 2, Len(s))) ELSE s

RECURSIVE TrimRight(_)
TrimRight(s) ==
  IF s # "" /\ isSpace(SubSeq(s, Len(s), Len(s)))
    THEN TrimRight(SubSeq(s, 1, Len(s) - 1)) ELSE s

TrimSpace(s) == TrimRight(TrimLeft(s))

\* digitsOnly.ReplaceAllString(input, ""): every non-digit removed.
RECURSIVE digitsOnly(_)
digitsOnly(s) ==
  IF s = "" THEN ""
  ELSE LET c == SubSeq(s, 1, 1)
           r == digitsOnly(SubSeq(s, 2, Len(s)))
       IN IF isDigit(c) THEN c \o r ELSE r

(***************************************************************************)
(* package phone.                                                          *)
(***************************************************************************)
MozambiqueCountryCode == "258"

validPrefixes == { "82", "83", "84", "85", "86", "87" }

\* Normalize: the local nine digits of the input, "" where Normalize returns
\* an error before the prefix check.
localNumber(input) ==
  LET hasPlus == HasPrefix(TrimSpace(input), "+")
      digits == digitsOnly(input)
  IN IF input = "" \/ digits = "" THEN ""
     ELSE IF Len(digits) = 9 THEN digits
     ELSE IF Len(digits) = 12 /\ HasPrefix(digits, MozambiqueCountryCode)
       THEN SubSeq(digits, 4, Len(digits))
     ELSE IF Len(digits) = 12 /\ hasPlus THEN ""
     ELSE IF Len(digits) = 14 /\ HasPrefix(digits, "00" \o MozambiqueCountryCode)
       THEN SubSeq(digits, 6, Len(digits))
     ELSE ""

Normalize(input) ==
  LET local == localNumber(input)
  IN IF Len(local) # 9 THEN [ ok |-> FALSE, number |-> "" ]
     ELSE IF SubSeq(local, 1, 2) \notin validPrefixes THEN [ ok |-> FALSE, number |-> "" ]
     ELSE [ ok |-> TRUE, number |-> "+" \o MozambiqueCountryCode \o local ]

phoneValidate(input) == Normalize(input).ok

(***************************************************************************)
(* package vehicle, package ride, package rating, package geo.             *)
(***************************************************************************)
ProvinceCodes == { "MC", "MP", "GZ", "IB", "SF", "MN", "TT", "ZB", "NP", "CA", "NS" }

isUpper(c) ==
  c \in { "A", "B", "C", "D", "E", "F", "G", "H", "I", "J", "K", "L", "M",
          "N", "O", "P", "Q", "R", "S", "T", "U", "V", "W", "X", "Y", "Z" }

\* s has the shape of `pattern`, where A stands for a letter, N for a digit
\* and any other character for itself.
hasShape(s, pattern) ==
  /\ Len(s) = Len(pattern)
  /\ \A i \in 1..Len(s) :
       LET c == SubSeq(s, i, i)
           p == SubSeq(pattern, i, i)
       IN IF p = "A" THEN isUpper(c) ELSE IF p = "N" THEN isDigit(c) ELSE c = p

\* vehicle.ValidatePlate(input) == nil: the standard format AAA-NNN-LL or the
\* old format LL-NN-NN, LL a province code.
ValidatePlate(input) ==
  \/ hasShape(input, "AAA-NNN-AA") /\ SubSeq(input, 9, 10) \in ProvinceCodes
  \/ hasShape(input, "AA-NN-NN") /\ SubSeq(input, 1, 2) \in ProvinceCodes

\* ride.ValidatePIN(input) == nil: four digits, not all the same, not
\* consecutive upwards or downwards.
ValidatePIN(input) ==
  /\ hasShape(input, "NNNN")
  /\ LET d == [ i \in 1..4 |-> digitValue(SubSeq(input, i, i)) ]
     IN /\ ~(\A i \in 1..3 : d[i + 1] = d[i])
        /\ ~(\A i \in 1..3 : d[i + 1] = d[i] + 1)
        /\ ~(\A i \in 1..3 : d[i + 1] = d[i] - 1)

MinRating == 1
MaxRating == 5

\* A wide number (see BigNum) is below zero, or above a small number c.
isNegative(v) == v.big < 0 \/ (v.big = 0 /\ v.n < 0)

exceeds(v, c) == v.big > 0 \/ (v.big = 0 /\ v.n > c)

\* int(v) of an int64 or uint64: the number keeps its low intSize bits, read
\* as a signed number. 2^k vanishes when k >= intSize, and n + 2^(intSize-1)
\* becomes n - 2^(intSize-1).
toInt(v) ==
  IF v.big = 0 THEN [ n |-> v.n, big |-> 0 ]
  ELSE LET k == IF v.big > 0 THEN v.big ELSE -v.big
       IN IF k >= intSize THEN [ n |-> v.n, big |-> 0 ]
          ELSE IF k = intSize - 1 /\ v.big > 0 THEN [ n |-> v.n, big |-> -k ]
          ELSE [ n |-> v.n, big |-> v.big ]

\* rating.ValidateRating(value) == nil, of an int.
ValidateRating(value) ==
  value.big = 0 /\ value.n >= MinRating /\ value.n <= MaxRating

\* Degrees in tenths.
MinLatitude == -900
MaxLatitude == 900
MinLongitude == -1800
MaxLongitude == 1800
MozambiqueMinLat == -269
MozambiqueMaxLat == -103
MozambiqueMinLon == 302
MozambiqueMaxLon == 410

\* x < c and x > c on float64: false when x is not a number.
less(x, c) == ~x.nan /\ x.n < c

greater(x, c) == ~x.nan /\ x.n > c

\* geo.ValidateCoordinates(lat, lon) == nil.
ValidateCoordinates(lat, lon) ==
  /\ ~(less(lat, MinLatitude) \/ greater(lat, MaxLatitude))
  /\ ~(less(lon, MinLongitude) \/ greater(lon, MaxLongitude))

\* geo.ValidateInMozambique(lat, lon) == nil.
ValidateInMozambique(lat, lon) ==
  /\ ValidateCoordinates(lat, lon)
  /\ ~(less(lat, MozambiqueMinLat) \/ greater(lat, MozambiqueMaxLat)
        \/ less(lon, MozambiqueMinLon) \/ greater(lon, MozambiqueMaxLon))

(***************************************************************************)
(* The six predicates of validator.go.                                     *)
(***************************************************************************)
validateMzPhoneNoEmptyCase(v) == phoneValidate(String(v))

validateMzPhone(v) ==
  IF String(v) = "" THEN TRUE ELSE phoneValidate(String(v))

validateMzPlate(v) ==
  IF String(v) = "" THEN TRUE ELSE ValidatePlate(String(v))

validateTxovaPin(v) ==
  IF String(v) = "" THEN TRUE ELSE ValidatePIN(String(v))

LatNames == << "Lat", "Latitude", "lat", "latitude" >>
LonNames == << "Lon", "Lng", "Longitude", "lon", "lng", "longitude" >>

\* The first of `names` that names a field of kind Float64 of the struct.
RECURSIVE findCoordinate(_, _)
findCoordinate(field, names) ==
  IF names = << >> THEN [ found |-> FALSE, f |-> Sub("", "invalid", 0) ]
  ELSE LET hits == { i \in 1..Len(field.sub) :
                       field.sub[i].name = Head(names) /\ field.sub[i].kind = "float64" }
       IN IF hits # {}
            THEN [ found |-> TRUE, f |-> field.sub[CHOOSE i \in hits : TRUE] ]
            ELSE findCoordinate(field, Tail(names))

validateLocationStructVacuous(field) ==
  LET lat == findCoordinate(field, LatNames)
      lon == findCoordinate(field, LonNames)
  IN IF ~lat.found \/ ~lon.found THEN TRUE
     ELSE ValidateInMozambique(lat.f, lon.f)

validateLocationStruct(field) ==
  LET lat == findCoordinate(field, LatNames)
      lon == findCoordinate(field, LonNames)
  IN IF ~lat.found \/ ~lon.found THEN FALSE
     ELSE ValidateInMozambique(lat.f, lon.f)

validateLocationSlice(field) ==
  IF Len(field.sub) < 2 THEN FALSE
  ELSE IF field.sub[1].kind # "float64" \/ field.sub[2].kind # "float64" THEN FALSE
  ELSE ValidateInMozambique(field.sub[1], field.sub[2])

validateMzLocation(field) ==
  IF field.kind = "struct" THEN validateLocationStruct(field)
  ELSE IF field.kind \in { "slice", "array" } THEN validateLocationSlice(field)
  ELSE FALSE

validateTxovaMoneyNotNegative(field) ==
  IF field.kind \in IntKinds \cup UintKinds \cup FloatKinds THEN ~isNegative(field)
  ELSE FALSE

validateTxovaMoney(field) ==
  IF field.kind \in IntKinds \cup UintKinds \cup FloatKinds THEN exceeds(field, 0)
  ELSE FALSE

\* The predicate without the range check before the narrowing.
validateTxovaRatingNarrowFirst(field) ==
  IF field.kind \in IntKinds \cup UintKinds THEN ValidateRating(toInt(field))
  ELSE FALSE

\* A rating predicate that reads a floating-point field as well.
validateTxovaRatingWithFloats(field) ==
  IF field.kind \in FloatKinds THEN field.n >= 10 /\ field.n <= 50
  ELSE IF field.kind \in IntKinds \cup UintKinds
    THEN IF isNegative(field) \/ exceeds(field, 5) THEN FALSE
         ELSE ValidateRating(toInt(field))
  ELSE FALSE

validateTxovaRating(field) ==
  IF field.kind \in IntKinds
    THEN IF isNegative(field) \/ exceeds(field, 5) THEN FALSE
         ELSE ValidateRating(toInt(field))
  ELSE IF field.kind \in UintKinds
    THEN IF exceeds(field, 5) THEN FALSE ELSE ValidateRating(toInt(field))
  ELSE FALSE

\* validator_test.go, TestRegisterValidation: the function a caller registers.
customFn(field) == String(field) = "custom"

\* The function a registry binding names, applied to a field.
callFn(fn, field) ==
  IF fn = "validateMzPhone" THEN validateMzPhone(field)
  ELSE IF fn = "validateMzPlate" THEN validateMzPlate(field)
  ELSE IF fn = "validateMzLocation" THEN validateMzLocation(field)
  ELSE IF fn = "validateTxovaPin" THEN validateTxovaPin(field)
  ELSE IF fn = "validateTxovaMoney" THEN validateTxovaMoney(field)
  ELSE IF fn = "validateTxovaRating" THEN validateTxovaRating(field)
  ELSE customFn(field)

(***************************************************************************)
(* The engine (go-playground/validator v10), as far as validator.go uses   *)
(* it: rule names, the per-field evaluation of a rule chain, Struct, Var.  *)
(***************************************************************************)
Rule(tag, param) == [ tag |-> tag, param |-> param ]

\* A struct field handed to the engine: its Go name, its json tag, the rules
\* of its validate tag in order, its value, and the names of the fields that
\* enclose it below the top-level struct, each followed by a dot.
Field(name, json, rules, value) ==
  [ name |-> name, json |-> json, rules |-> rules, value |-> value, path |-> "" ]

\* A struct whose fields carry rules of their own, as the value of a field.
NestedOf(fields) ==
  [ kind |-> "struct", type |-> "struct", s |-> "", n |-> 0, big |-> 0,
    sub |-> << >>, isnil |-> FALSE, fields |-> fields ]

nestedFields(v) == IF "fields" \in DOMAIN v THEN v.fields ELSE << >>

\* What Validate is called with: a struct with its fields, or something else.
Record(fields) == [ kind |-> "struct", fields |-> fields ]
NonRecord(k) == [ kind |-> k, fields |-> << >> ]

\* The rules the engine brings along that the modelled records use.
BakedIn ==
  { "required", "min", "max", "len", "gt", "gte", "lt", "lte", "oneof",
    "email", "url", "alpha", "eq" }

\* A rule name the engine can resolve while it builds a rule chain.
isBound(reg, tag) ==
  \/ tag = "omitempty"
  \/ tag \in BakedIn
  \/ tag \in TagUniverse /\ reg.validations[tag] # NoFn

\* strings.SplitN(s, ",", 2)[0].
RECURSIVE beforeComma(_)
beforeComma(s) ==
  IF s = "" \/ SubSeq(s, 1, 1) = "," THEN ""
  ELSE SubSeq(s, 1, 1) \o beforeComma(SubSeq(s, 2, Len(s)))

tagNameFuncWholeTag(fld) ==
  IF fld.json = "-" \/ fld.json = "" THEN fld.name ELSE fld.json

\* The naming function initValidator registers.
tagNameFunc(fld) ==
  LET name == beforeComma(fld.json)
  IN IF name = "-" THEN fld.name
     ELSE IF name = "" THEN fld.name
     ELSE name

\* The name the engine knows a field under: what the registered naming
\* function returns, or the Go name.
altName(reg, fld) ==
  IF reg.tagNameFunc /\ tagNameFunc(fld) # "" THEN tagNameFunc(fld) ELSE fld.name

\* err.Namespace() below the top-level struct: the names of the enclosing
\* fields and the field's own, joined with dots.
fieldNamespace(reg, fld) == fld.path \o altName(reg, fld)

\* A report that names a field by its path.
fieldNameWithPath(reg, fld) == fld.path \o altName(reg, fld)

\* err.Field(): the name of the field itself.
fieldName(reg, fld) == altName(reg, fld)

\* The engine's hasValue: a slice is present when it is not nil, anything
\* else when it is not the zero value of its type.
RECURSIVE isZero(_)
isZero(v) ==
  IF v.kind = "string" THEN v.s = ""
  ELSE IF v.kind = "struct"
    THEN /\ \A i \in 1..Len(v.sub) : v.sub[i].n = 0
         /\ \A i \in 1..Len(nestedFields(v)) : isZero(nestedFields(v)[i].value)
  ELSE IF v.kind \in { "slice", "invalid" } THEN v.isnil
  ELSE v.n = 0 /\ v.big = 0

hasValue(v) ==
  IF v.kind \in { "slice", "invalid" } THEN ~v.isnil ELSE ~isZero(v)

\* A decimal parameter as a number.
RECURSIVE asInt(_)
asInt(s) ==
  IF s = "" THEN 0
  ELSE 10 * asInt(SubSeq(s, 1, Len(s) - 1)) + digitValue(SubSeq(s, Len(s), Len(s)))

\* What the size rules compare with their parameter: the rune count of a
\* string, the length of a slice, the number itself.
sizeOf(v) ==
  IF v.kind = "string" THEN Len(v.s)
  ELSE IF v.kind = "slice" THEN Len(v.sub)
  ELSE v.n

sizeParam(v, param) ==
  IF v.kind \in FloatKinds THEN 10 * asInt(param) ELSE asInt(param)

\* strings.Split(s, sep) for a one-character separator.
RECURSIVE Split(_, _)
Split(s, sep) ==
  IF \A i \in 1..Len(s) : SubSeq(s, i, i) # sep THEN << s >>
  ELSE LET i == CHOOSE j \in 1..Len(s) :
                  SubSeq(s, j, j) = sep /\ \A k \in 1..(j - 1) : SubSeq(s, k, k) # sep
       IN << SubSeq(s, 1, i - 1) >> \o Split(SubSeq(s, i + 1, Len(s)), sep)

\* strings.Join(elems, sep).
RECURSIVE Join(_, _)
Join(elems, sep) ==
  IF elems = << >> THEN ""
  ELSE IF Len(elems) = 1 THEN elems[1]
  ELSE elems[1] \o sep \o Join(Tail(elems), sep)

\* strings.Contains(s, part).
Contains(s, part) ==
  \E i \in 1..(Len(s) - Len(part) + 1) : SubSeq(s, i, i + Len(part) - 1) = part

isEmail(s) ==
  \E i \in 2..(Len(s) - 1) :
    /\ SubSeq(s, i, i) = "@"
    /\ ~Contains(SubSeq(s, i + 1, Len(s)), "@")
    /\ Contains(SubSeq(s, i + 1, Len(s)), ".")
    /\ ~Contains(s, " ")

isURL(s) ==
  \E i \in 2..(Len(s) - 3) : SubSeq(s, i, i + 2) = "://" /\ ~Contains(s, " ")

isAlpha(s) ==
  /\ s # ""
  /\ \A i \in 1..Len(s) :
       LET c == SubSeq(s, i, i)
       IN isUpper(c) \/ c \in { "a", "b", "c", "d", "e", "f", "g", "h", "i", "j", "k",
                                "l", "m", "n", "o", "p", "q", "r", "s", "t", "u", "v",
                                "w", "x", "y", "z" }

\* %v of a value.
Sprint(v) == IF v.kind = "string" THEN v.s ELSE ToString(v.n)

\* Whether the value satisfies the rule.
holds(reg, rule, v) ==
  LET tag == rule.tag
      p == rule.param
  IN IF tag = "required" THEN hasValue(v)
     ELSE IF tag \in { "min", "gte" } THEN sizeOf(v) >= sizeParam(v, p)
     ELSE IF tag \in { "max", "lte" } THEN sizeOf(v) <= sizeParam(v, p)
     ELSE IF tag = "gt" THEN sizeOf(v) > sizeParam(v, p)
     ELSE IF tag = "lt" THEN sizeOf(v) < sizeParam(v, p)
     ELSE IF tag = "len" THEN sizeOf(v) = sizeParam(v, p)
     ELSE IF tag = "oneof" THEN \E i \in 1..Len(Split(p, " ")) : Split(p, " ")[i] = Sprint(v)
     ELSE IF tag = "email" THEN isEmail(String(v))
     ELSE IF tag = "url" THEN isURL(String(v))
     ELSE IF tag = "alpha" THEN isAlpha(String(v))
     ELSE IF tag = "eq" THEN Sprint(v) = p
     ELSE callFn(reg.validations[tag], v)

\* The engine's report of one violated rule.
FieldError(reg, fld, rule) ==
  [ field |-> fieldName(reg, fld), ns |-> fieldNamespace(reg, fld), tag |-> rule.tag,
    param |-> rule.param, value |-> fld.value, kind |-> fld.value.kind ]

\* The fields of a struct held by a field, each under the path of the field.
enter(reg, fld) ==
  [ i \in 1..Len(nestedFields(fld.value)) |->
      [ nestedFields(fld.value)[i] EXCEPT !.path = fld.path \o altName(reg, fld) \o "." ] ]

\* Whether the rule chain of a field runs to its end.
RECURSIVE passes(_, _, _)
passes(reg, fld, rules) ==
  IF rules = << >> THEN TRUE
  ELSE IF Head(rules).tag = "omitempty"
    THEN hasValue(fld.value) /\ passes(reg, fld, Tail(rules))
  ELSE holds(reg, Head(rules), fld.value) /\ passes(reg, fld, Tail(rules))

\* One field against its rule chain: the rules run in order; omitempty ends
\* the chain when there is no value; the first rule that fails is reported
\* and ends the chain; a struct whose chain ran to its end is validated
\* field by field in its turn.
RECURSIVE traverseField(_, _, _)
RECURSIVE validateStruct(_, _)
traverseField(reg, fld, rules) ==
  IF rules = << >> THEN validateStruct(reg, enter(reg, fld))
  ELSE IF Head(rules).tag = "omitempty"
    THEN IF ~hasValue(fld.value) THEN << >> ELSE traverseField(reg, fld, Tail(rules))
  ELSE IF ~holds(reg, Head(rules), fld.value) THEN << FieldError(reg, fld, Head(rules)) >>
  ELSE traverseField(reg, fld, Tail(rules))

\* Every field of the struct in declaration order, each field's report
\* appended to the one list.
validateStruct(reg, fields) ==
  IF fields = << >> THEN << >>
  ELSE traverseField(reg, Head(fields), Head(fields).rules)
         \o validateStruct(reg, Tail(fields))

allBound(reg, rules) == \A i \in 1..Len(rules) : isBound(reg, rules[i].tag)

\* The engine builds the rule chains of a struct type when it first
\* validates a struct of the type: of the top-level struct at once, of a
\* struct held by a field when the chain of the field ran to its end.
RECURSIVE unboundReached(_, _)
unboundReached(reg, fields) ==
  IF \E i \in 1..Len(fields) : ~allBound(reg, fields[i].rules) THEN TRUE
  ELSE \E i \in 1..Len(fields) :
         /\ nestedFields(fields[i].value) # << >>
         /\ passes(reg, fields[i], fields[i].rules)
         /\ unboundReached(reg, nestedFields(fields[i].value))

\* v.Struct(s). A value that is no struct is refused with an
\* InvalidValidationError; a rule name without a binding makes the engine
\* panic while it builds the rule chains of the struct type.
EngineStruct(reg, s) ==
  IF s.kind # "struct"
    THEN [ outcome |-> "returned", err |-> "InvalidValidationError", errs |-> << >>,
           msg |-> IF s.kind = "invalid" THEN "validator: (nil)"
                   ELSE "validator: (nil " \o s.kind \o ")" ]
  ELSE IF unboundReached(reg, s.fields)
    THEN [ outcome |-> "panicked", err |-> "none", errs |-> << >>, msg |-> "" ]
  ELSE LET errs == validateStruct(reg, s.fields)
       IN [ outcome |-> "returned",
            err |-> IF errs = << >> THEN "nil" ELSE "ValidationErrors",
            errs |-> errs, msg |-> "" ]

\* v.Var(field, tag): the value against one rule chain, reported under the
\* empty field name.
EngineVar(reg, value, rules) ==
  IF ~allBound(reg, rules)
    THEN [ outcome |-> "panicked", err |-> "none", errs |-> << >>, msg |-> "" ]
  ELSE LET errs == traverseField(reg, Field("", "", rules, value), rules)
       IN [ outcome |-> "returned",
            err |-> IF errs = << >> THEN "nil" ELSE "ValidationErrors",
            errs |-> errs, msg |-> "" ]

(***************************************************************************)
(* package errors: the codes and the constructors validator.go uses.       *)
(***************************************************************************)
CodeRequired == "REQUIRED"
CodeInvalidFormat == "INVALID_FORMAT"
CodeOutOfRange == "OUT_OF_RANGE"
CodeTooShort == "TOO_SHORT"
CodeTooLong == "TOO_LONG"
CodeInvalidOption == "INVALID_OPTION"
CodeOutsideServiceArea == "OUTSIDE_SERVICE_AREA"

Codes ==
  { CodeRequired, CodeInvalidFormat, CodeOutOfRange, CodeTooShort, CodeTooLong,
    CodeInvalidOption, CodeOutsideServiceArea }

ValidationError(field, code, message, value) ==
  [ field |-> field, code |-> code, message |-> message, value |-> value ]

New(field, code, message) == ValidationError(field, code, message, NilValue)

Required(field) ==
  ValidationError(field, CodeRequired, field \o " is required", NilValue)

InvalidFormatWithValue(field, expected, value) ==
  ValidationError(field, CodeInvalidFormat,
                  field \o " has invalid format, expected " \o expected, value)

OutOfRangeWithValue(field, min, max, value) ==
  ValidationError(field, CodeOutOfRange,
                  field \o " must be between " \o Sprint(min) \o " and " \o Sprint(max),
                  value)

TooShortWithValue(field, minLength, actualLength) ==
  ValidationError(field, CodeTooShort,
                  field \o " must be at least " \o ToString(minLength) \o " characters",
                  Num("int", actualLength))

TooLongWithValue(field, maxLength, actualLength) ==
  ValidationError(field, CodeTooLong,
                  field \o " must be at most " \o ToString(maxLength) \o " characters",
                  Num("int", actualLength))

InvalidOptionWithValue(field, allowedOptions, value) ==
  ValidationError(field, CodeInvalidOption,
                  field \o " must be one of: " \o Join(allowedOptions, ", "), value)

OutsideServiceArea(field) ==
  ValidationError(field, CodeOutsideServiceArea,
                  field \o " is outside the service area", NilValue)

(***************************************************************************)
(* package errors: ValidationErrors, a slice of ValidationError. A         *)
(* collection is its entries and whether the slice is nil.                 *)
(***************************************************************************)
\* ValidationErrors{}: the empty collection that is not nil.
EmptyCollection == [ isnil |-> FALSE, errs |-> << >> ]

Collection(errs) == [ isnil |-> FALSE, errs |-> errs ]

\* append(s, es...): s itself when there is nothing to add.
append(c, es) ==
  IF es = << >> THEN c ELSE [ isnil |-> FALSE, errs |-> c.errs \o es ]

\* An Add that keeps one entry per field.
AddUnique(c, err) ==
  IF \E i \in 1..Len(c.errs) : c.errs[i].field = err.field THEN c
  ELSE append(c, << err >>)

Add(c, err) == append(c, << err >>)

AddAll(c, errs) == append(c, errs.errs)

HasErrors(c) == Len(c.errs) > 0

HasField(c, field) == \E i \in 1..Len(c.errs) : c.errs[i].field = field

\* var result ValidationErrors, appended to for each match.
GetByField(c, field) ==
  append(NilCollection, SelectSeq(c.errs, LAMBDA e : e.field = field))

GetByCode(c, code) ==
  append(NilCollection, SelectSeq(c.errs, LAMBDA e : e.code = code))

\* First: a pointer to the first entry, or nil.
First(c) == IF Len(c.errs) = 0 THEN << >> ELSE << c.errs[1] >>

\* The field names without the test of `seen`.
FieldsOfAll(c) == [ i \in 1..Len(c.errs) |-> c.errs[i].field ]

\* Fields: the names in the order they are first seen.
RECURSIVE Fields(_)
Fields(c) ==
  IF c.errs = << >> THEN << >>
  ELSE LET n == Len(c.errs)
           before == Fields([ c EXCEPT !.errs = SubSeq(c.errs, 1, n - 1) ])
           f == c.errs[n].field
       IN IF \E i \in 1..Len(before) : before[i] = f THEN before
          ELSE Append(before, f)

\* ToError: nil, or the collection as an error.
ToError(c) ==
  IF Len(c.errs) = 0 THEN [ isnil |-> TRUE, errs |-> << >> ]
  ELSE [ isnil |-> FALSE, errs |-> c.errs ]

\* encoding/json of a string, and of the value of a failure.
quoted(s) == "\"" \o s \o "\""

marshalValue(v) ==
  IF v.kind = "string" THEN quoted(v.s)
  ELSE IF v.kind \in { "struct", "slice" } THEN "{}"
  ELSE ToString(v.n)

\* encoding/json of a ValidationError: value is left out when it is nil.
marshalError(e) ==
  "{" \o quoted("field") \o ":" \o quoted(e.field)
      \o "," \o quoted("code") \o ":" \o quoted(e.code)
      \o "," \o quoted("message") \o ":" \o quoted(e.message)
      \o (IF e.value.kind = "invalid" THEN ""
          ELSE "," \o quoted("value") \o ":" \o marshalValue(e.value))
      \o "}"

\* json.Marshal of a slice of ValidationError: null for nil.
marshalSlice(c) ==
  IF c.isnil THEN "null"
  ELSE "[" \o Join([ i \in 1..Len(c.errs) |-> marshalError(c.errs[i]) ], ",") \o "]"

MarshalJSON(c) ==
  IF Len(c.errs) = 0 THEN "[]" ELSE marshalSlice(c)

(***************************************************************************)
(* The translator of validator.go.                                         *)
(***************************************************************************)
\* The runes the modelled strings use that UTF-8 encodes in two bytes.
TwoByteRunes == { "ã", "é", "ç", "õ" }

\* len(s): the number of bytes of a string.
RECURSIVE len(_)
len(s) ==
  IF s = "" THEN 0
  ELSE (IF SubSeq(s, 1, 1) \in TwoByteRunes THEN 2 ELSE 1) + len(SubSeq(s, 2, Len(s)))

\* parseIntParam: the digits of s read as a decimal number, everything else
\* skipped.
RECURSIVE parseIntParam(_)
parseIntParam(s) ==
  IF s = "" THEN 0
  ELSE LET c == SubSeq(s, Len(s), Len(s))
           n == parseIntParam(SubSeq(s, 1, Len(s) - 1))
       IN IF isDigit(c) THEN n * 10 + digitValue(c) ELSE n

\* Stands for the sign U+221E of the source's "∞" and "-∞".
Infinity == "oo"

\* value.(string) succeeds only when the value's type is string itself.
translateMinTag(err) ==
  IF err.kind = "string" /\ err.value.type = "string"
    THEN TooShortWithValue(err.field, parseIntParam(err.param), len(err.value.s))
    ELSE OutOfRangeWithValue(err.field, Str(err.param), Str(Infinity), err.value)

translateMaxTag(err) ==
  IF err.kind = "string" /\ err.value.type = "string"
    THEN TooLongWithValue(err.field, parseIntParam(err.param), len(err.value.s))
    ELSE OutOfRangeWithValue(err.field, Str("-" \o Infinity), Str(err.param), err.value)

SpecialTags ==
  { "required", "min", "max", "len", "oneof", "mz_location", "txova_money",
    "txova_rating" }

requiredAsFormat(err) == InvalidFormatWithValue(err.field, err.tag, err.value)

requiredCase(err) == Required(err.field)

\* translateSpecialTag, for a tag of SpecialTags (ok is true).
translateSpecialTag(err) ==
  IF err.tag = "required" THEN requiredCase(err)
  ELSE IF err.tag = "min" THEN translateMinTag(err)
  ELSE IF err.tag = "max" THEN translateMaxTag(err)
  ELSE IF err.tag = "len"
    THEN InvalidFormatWithValue(err.field, "length " \o err.param, err.value)
  ELSE IF err.tag = "oneof"
    THEN InvalidOptionWithValue(err.field, Split(err.param, " "), err.value)
  ELSE IF err.tag = "mz_location" THEN OutsideServiceArea(err.field)
  ELSE IF err.tag = "txova_money"
    THEN OutOfRangeWithValue(err.field, Num("int", 1), Str(Infinity), err.value)
  ELSE OutOfRangeWithValue(err.field, Num("int", 1), Num("int", 5), err.value)

FormatTags == { "email", "url", "mz_phone", "mz_plate", "txova_pin" }

formatTagItself(tag) == tag

formatTagExpectations(tag) ==
  IF tag = "email" THEN "valid email address"
  ELSE IF tag = "url" THEN "valid URL"
  ELSE IF tag = "mz_phone" THEN "valid Mozambique phone number"
  ELSE IF tag = "mz_plate" THEN "valid Mozambique license plate"
  ELSE "4-digit PIN (no sequential or repeated)"

isLowerBoundTag(tag) == tag = "gt" \/ tag = "gte"

isUpperBoundTag(tag) == tag = "lt" \/ tag = "lte"

\* translateError's last return, taken for a tag in none of the tables.
fallbackAdHoc(err) ==
  ValidationError(err.field, "UNKNOWN_RULE", err.field \o " is invalid", err.value)

fallbackNoValue(err) ==
  ValidationError(err.field, CodeInvalidFormat,
                  err.field \o " has invalid format", NilValue)

defaultCase(err) == InvalidFormatWithValue(err.field, err.tag, err.value)

translateError(err) ==
  IF err.tag \in SpecialTags THEN translateSpecialTag(err)
  ELSE IF err.tag \in FormatTags
    THEN InvalidFormatWithValue(err.field, formatTagExpectations(err.tag), err.value)
  ELSE IF isLowerBoundTag(err.tag)
    THEN OutOfRangeWithValue(err.field, Str(err.param), Str(Infinity), err.value)
  ELSE IF isUpperBoundTag(err.tag)
    THEN OutOfRangeWithValue(err.field, Str("-" \o Infinity), Str(err.param), err.value)
  ELSE defaultCase(err)

\* What Validate and ValidateVar return: nil, or a non-nil collection.
NilErrors == [ outcome |-> "returned", isnil |-> TRUE, errs |-> << >> ]

Errors(errs) == [ outcome |-> "returned", isnil |-> FALSE, errs |-> errs ]

\* The engine's panic passes through Validate and ValidateVar to the caller.
Panicked == [ outcome |-> "panicked", isnil |-> TRUE, errs |-> << >> ]

translateErrorsFirstOnly(errs) ==
  IF Len(errs) = 0 THEN NilErrors ELSE Errors(<< translateError(errs[1]) >>)

translateErrors(errs) ==
  IF Len(errs) = 0 THEN NilErrors
  ELSE Errors([ i \in 1..Len(errs) |-> translateError(errs[i]) ])

\* A handling of the engine's answer that takes an error of another type
\* for no error.
afterStructDropsOthers(r) ==
  IF r.outcome = "panicked" THEN Panicked
  ELSE IF r.err = "ValidationErrors" THEN translateErrors(r.errs)
  ELSE NilErrors

\* Validate, from the answer r of v.Struct(s) on.
afterStruct(r) ==
  IF r.outcome = "panicked" THEN Panicked
  ELSE IF r.err = "nil" THEN NilErrors
  ELSE IF r.err = "ValidationErrors" THEN translateErrors(r.errs)
  ELSE Errors(<< New("_", CodeInvalidFormat, r.msg) >>)

\* ValidateVar, from the answer r of v.Var(field, tag) on.
afterVar(r) ==
  IF r.outcome = "panicked" THEN Panicked
  ELSE IF r.err = "nil" THEN NilErrors
  ELSE IF r.err = "ValidationErrors" THEN translateErrors(r.errs)
  ELSE Errors(<< New("value", CodeInvalidFormat, r.msg) >>)

Validate(reg, s) == afterStruct(EngineStruct(reg, s))

ValidateVar(reg, field, rules) == afterVar(EngineVar(reg, field, rules))

(***************************************************************************)
(* Part II, the calls. The values, record types and rule chains are those  *)
(* of validator_test.go and the README.                                    *)
(***************************************************************************)
Maputo == Location(-259, 325)
London == Location(515, -1)

StringValues ==
  { Str(""), Str("+258841234567"), Str("841234567"), Str("invalid"),
    Str("AAA-123-MP"), Str("MC-12-34"), Str("INVALID"), Str("7392"), Str("1234"),
    Str("1111"), Str("test@example.com"), Str("custom") }

\* 2^31+3, 2^32+3, 2^63+3 and 3-2^32: numbers that narrow to 3 or to a
\* negative number on one platform or the other.
WideValues ==
  { BigNum("int64", 3, 32), BigNum("int64", 3, 31), BigNum("int64", 3, -32),
    BigNum("uint64", 3, 32), BigNum("uint64", 3, 63), BigNum("uint32", 3, 31) }

NumberValues ==
  { Num("int", n) : n \in { -1, 0, 1, 5, 6, 10 } }
    \cup { Num("int64", n) : n \in { -100, 0, 100 } }
    \cup { Num("uint", n) : n \in { 0, 3, 6 } }
    \cup { Num("float64", n) : n \in { -10, 0, 5, 10, 30, 50 } }
    \cup { Num("float32", n) : n \in { 0, 15 } }
    \cup { Num(k, n) : k \in { "int8", "int16", "int32", "uint8", "uint16",
                                "uint32", "uint64" },
                       n \in { 0, 1, 5, 6 } }
    \cup { Num(k, n) : k \in { "int8", "int16", "int32" }, n \in { -1 } }
    \cup WideValues

SliceValues ==
  { NilSlice, SliceOf(<< >>), SliceOf(<< Sub("", "float64", -259) >>),
    SliceOf(<< Sub("", "float64", -259), Sub("", "float64", 325) >>),
    SliceOf(<< Sub("", "float64", 0), Sub("", "float64", 0) >>),
    SliceOf(<< Sub("", "int", -25), Sub("", "int", 32) >>) }

StructValues ==
  { Location(0, 0), Maputo, London,
    StructOf(<< Sub("Lat", "float64", -259) >>),
    StructOf(<< Sub("City", "string", 0) >>),
    StructOf(<< Sub("Latitude", "float64", -259), Sub("Lng", "float64", 325) >>),
    StructOf(<< Sub("Lat", "float32", -259), Sub("Lon", "float32", 325) >>),
    StructOf(<< Sub("Lat", "float32", 0), Sub("latitude", "float64", -259),
                Sub("Lon", "float64", 325) >>) }

\* Latitudes and longitudes on, next to and far from the bounds of the box,
\* and the float that is not a number.
LatSamples ==
  { Sub("Lat", "float64", n) : n \in { -270, -269, -259, -103, -102, 0 } }
    \cup { SubNaN("Lat") }

LonSamples ==
  { Sub("Lon", "float64", n) : n \in { 301, 302, 325, 410, 411 } }
    \cup { SubNaN("Lon") }

element(c) == [ c EXCEPT !.name = "" ]

\* A pair as a record {Lat, Lon}, as a sequence [lat, lon] and as a longer
\* sequence that begins with it.
PairValues ==
  UNION { { StructOf(<< la, lo >>),
            SliceOf(<< element(la), element(lo) >>),
            SliceOf(<< element(la), element(lo), Sub("", "float64", 0) >>) } :
          la \in LatSamples, lo \in LonSamples }

\* The values a rule chain is run against on its own.
VarValues == StringValues \cup NumberValues \cup SliceValues

\* The values a predicate is called with.
PredicateValues == VarValues \cup StructValues \cup PairValues

Decl(name, json, rules, values) ==
  [ name |-> name, json |-> json, rules |-> rules, values |-> values ]

required == Rule("required", "")
omitempty == Rule("omitempty", "")

UserRegistration ==
  << Decl("Name", "name", << required, Rule("min", "2"), Rule("max", "100") >>,
          { Str(""), Str("J"), Str("João") }),
     Decl("Email", "email", << required, Rule("email", "") >>,
          { Str(""), Str("invalid-email"), Str("joao@example.com") }),
     Decl("Phone", "phone", << required, Rule("mz_phone", "") >>,
          { Str(""), Str("invalid-phone"), Str("+258841234567") }),
     Decl("Password", "password", << required, Rule("min", "8") >>,
          { Str(""), Str("short"), Str("securepass123") }) >>

VehicleInfo ==
  << Decl("Plate", "plate", << required, Rule("mz_plate", "") >>,
          { Str(""), Str("AAA-123-MC") }),
     Decl("Year", "year", << required, Rule("txova_vehicle_year", "") >>,
          { Num("int", -1), Num("int", 0), Num("int", 2005), Num("int", 2009),
            Num("int", 2010), Num("int", 2020) }),
     Decl("Color", "color", << required, Rule("oneof", "white black silver red blue") >>,
          { Str("green"), Str("white") }) >>

RideRequest ==
  << Decl("PIN", "pin", << required, Rule("txova_pin", "") >>,
          { Str(""), Str("1234"), Str("7392") }),
     Decl("Fare", "fare", << required, Rule("txova_money", "") >>,
          { Num("int64", 0), Num("int64", -100), Num("int64", 5000) }),
     Decl("Rating", "rating", << omitempty, Rule("txova_rating", "") >>,
          { Num("int", 0), Num("int", 3), Num("int", 6) }),
     Decl("Pickup", "pickup", << required, Rule("mz_location", "") >>,
          { Location(0, 0), Maputo, London }) >>

OptionalFields ==
  << Decl("Name", "name", << omitempty, Rule("min", "2") >>, { Str(""), Str("J"), Str("Jo") }),
     Decl("Phone", "phone", << omitempty, Rule("mz_phone", "") >>,
          { Str(""), Str("invalid"), Str("841234567") }),
     Decl("Rating", "rating", << omitempty, Rule("txova_rating", "") >>,
          { Num("int", 0), Num("int", 5), Num("int", 6) }) >>

FieldNames ==
  << Decl("UserName", "user_name", << required >>, { Str(""), Str("joao") }),
     Decl("Email", "-", << required >>, { Str(""), Str("joao@example.com") }),
     Decl("Phone", "", << required >>, { Str(""), Str("841234567") }),
     Decl("Notes", "notes,omitempty", << required >>, { Str(""), Str("n") }),
     Decl("Avatar", ",omitempty", << required >>, { Str(""), Str("a") }) >>

\* The structs of one field.
SingleFields ==
  { Decl("Amount", "amount", << Rule("txova_money", "") >>,
         { Num("float64", 0), Num("float64", 5), Num("float64", -10), Num("int", 0),
           Num("int", 100), Num("uint", 0), Num("uint", 100), Str(""), Str("100") }),
    Decl("Fare", "fare", << required, Rule("txova_money", "") >>,
         { Num("int64", 0), Num("int64", -100), Num("float64", 0), Num("uint", 0) }),
    Decl("Code", "code", << Rule("len", "4") >>, { Str(""), Str("123"), Str("1234") }),
    Decl("Coords", "coords", << Rule("mz_location", "") >>, SliceValues),
    Decl("Waypoint", "waypoint", << required, Rule("mz_location", "") >>, SliceValues),
    Decl("Location", "location", << Rule("mz_location", "") >>,
         StructValues \cup { Str(""), Str("Maputo") }),
    Decl("Name", "name", << Rule("max", "5") >>,
         { Str(""), Str("João"), Str("Joãoo"), Str("verylongname") }),
    Decl("Rating", "rating", << Rule("txova_rating", "") >>,
         { Num("uint", 0), Num("uint", 3), Num("uint", 6), Str(""), Str("5"),
           Num("float64", 30) }),
    Decl("Rating", "rating", << required, Rule("txova_rating", "") >>,
         { Num("int", -1), Num("int", 0), Num("int", 1), Num("int", 5), Num("int", 6),
           Num("uint", 0) }),
    Decl("Plate", "plate", << required, Rule("mz_plate", "") >>,
         { Str(""), Str("INVALID"), Str("AAA-123-MC"), Str("MC-12-34"), Str("AAA-123-XX") }),
    Decl("URL", "url", << required, Rule("url", "") >>,
         { Str(""), Str("not-a-url"), Str("https://txova.co.mz") }),
    Decl("Value", "value", << Rule("gt", "10") >>, { Num("int", 5), Num("int", 10), Num("int", 15) }),
    Decl("Value", "value", << Rule("lt", "10") >>, { Num("int", 5), Num("int", 10), Num("int", 15) }),
    Decl("Age", "age", << Rule("min", "18"), Rule("max", "120") >>,
         { Num("int", 17), Num("int", 30), Num("int", 121) }),
    Decl("Name", "name", << Rule("min", "5") >>,
         { Str("Ana"), Str("João"), Str("Joana") }),
    Decl("Nickname", "nickname", << Rule("min", "3"), Rule("max", "8") >>,
         { NamedStr("Name", "Jo"), NamedStr("Name", "Joana"),
           NamedStr("Name", "verylongname") }),
    Decl("Seats", "seats", << Rule("gte", "1"), Rule("lte", "8") >>,
         { Num("int", 0), Num("int", 4), Num("int", 9) }),
    Decl("Color", "color", << required, Rule("oneof", "white black silver red blue") >>,
         { Str(""), Str("green"), Str("white") }),
    Decl("Value", "", << Rule("test_custom", "") >>,
         { Str(""), Str("custom"), Str("not-custom") }),
    Decl("Word", "word", << Rule("alpha", "") >>, { Str(""), Str("abc"), Str("abc1") }),
    Decl("Confirm", "confirm", << Rule("eq", "yes") >>, { Str("yes"), Str("no") }) }

RecordTypes ==
  { UserRegistration, VehicleInfo, RideRequest, OptionalFields, FieldNames }
    \cup { << d >> : d \in SingleFields }

\* The records of a type: each field holds one of its values.
RECURSIVE FieldsOf(_)
FieldsOf(decls) ==
  IF decls = << >> THEN { << >> }
  ELSE { << Field(Head(decls).name, Head(decls).json, Head(decls).rules, v) >> \o rest :
           v \in Head(decls).values, rest \in FieldsOf(Tail(decls)) }

Inputs ==
  { Record(fs) : fs \in UNION { FieldsOf(t) : t \in RecordTypes } }
    \cup { NonRecord("invalid"), NonRecord("int"), NonRecord("string") }

\* The struct of a type with the given values in its fields.
structOf(decls, values) ==
  NestedOf([ i \in 1..Len(decls) |->
               Field(decls[i].name, decls[i].json, decls[i].rules, values[i]) ])

UserValues ==
  { structOf(UserRegistration, << Str(""), Str(""), Str(""), Str("") >>),
    structOf(UserRegistration, << Str("João"), Str("joao@example.com"),
                                  Str("+258841234567"), Str("securepass123") >>),
    structOf(UserRegistration, << Str("J"), Str("joao@example.com"),
                                  Str("+258841234567"), Str("securepass123") >>),
    structOf(UserRegistration, << Str("J"), Str("invalid"), Str("bad"), Str("short") >>) }

VehicleValues ==
  { structOf(VehicleInfo, << Str(""), Num("int", 0), Str("") >>),
    structOf(VehicleInfo, << Str("AAA-123-MP"), Num("int", 2022), Str("white") >>),
    structOf(VehicleInfo, << Str("bad"), Num("int", 2022), Str("green") >>) }

\* validator_test.go: type NestedStruct.
NestedStruct ==
  << Decl("User", "user", << required >>, UserValues),
     Decl("Vehicle", "vehicle", << required >>, VehicleValues) >>

\* A struct that holds two structs of one type.
TwoUsers ==
  << Decl("Rider", "rider", << required >>, UserValues),
     Decl("Driver", "driver", << required >>, UserValues) >>

NestedInputs == { Record(fs) : fs \in FieldsOf(NestedStruct) \cup FieldsOf(TwoUsers) }

\* The rule expressions ValidateVar is called with.
VarRules ==
  { << Rule("email", "") >>, << Rule("mz_phone", "") >>, << Rule("mz_plate", "") >>,
    << Rule("txova_pin", "") >>, << Rule("txova_rating", "") >>,
    << Rule("txova_money", "") >>, << Rule("mz_location", "") >>,
    << required, Rule("mz_phone", "") >>, << required, Rule("txova_money", "") >>,
    << required, Rule("mz_location", "") >>, << Rule("test_custom", "") >>,
    << Rule("txova_vehicle_year", "") >> }

\* The state a process is in once a first call has set the registry up and
\* returned.
InitV ==
  /\ onceDone = 1
  /\ onceM = NoProc
  /\ validate = AfterInit
  /\ pc = [ p \in Procs |-> "idle" ]
  /\ call = [ p \in Procs |-> NoCall ]
  /\ istep = [ p \in Procs |-> 0 ]
  /\ arrival = [ p \in Procs |-> "none" ]
  /\ ret = [ p \in Procs |-> "none" ]
  /\ ncalls = 1
  /\ initRuns = 1
  /\ crashed = FALSE
  /\ ValIdle
  /\ intSize \in IntSizes
  /\ ve = NilCollection

restVars ==
  << onceDone, onceM, pc, call, istep, arrival, ret, ncalls, initRuns, crashed,
     intSize, ve >>

\* The engine calls the predicate bound to a custom tag with a field.
CallPredicate ==
  /\ ValIdle
  /\ \E tag \in CustomTagSet, v \in PredicateValues :
       /\ vop' = "predicate"
       /\ vin' = [ tag |-> tag, value |-> v ]
       /\ vout' = [ ok |-> callFn(validate.validations[tag], v) ]
  /\ UNCHANGED << validate, restVars >>

\* Validate(s).
RunValidate ==
  /\ ValIdle
  /\ \E s \in Inputs :
       /\ vop' = "Validate"
       /\ vin' = s
       /\ vout' = Validate(validate, s)
  /\ UNCHANGED << validate, restVars >>

\* Validate(s), of a struct that holds structs.
RunValidateNested ==
  /\ ValIdle
  /\ \E s \in NestedInputs :
       /\ vop' = "ValidateNested"
       /\ vin' = s
       /\ vout' = Validate(validate, s)
  /\ UNCHANGED << validate, restVars >>

\* ValidateVar(field, tag).
RunValidateVar ==
  /\ ValIdle
  /\ \E v \in VarValues, rules \in VarRules :
       /\ vop' = "ValidateVar"
       /\ vin' = [ value |-> v, rules |-> rules ]
       /\ vout' = ValidateVar(validate, v, rules)
  /\ UNCHANGED << validate, restVars >>

\* RegisterValidation(tag, fn), of a tag that has no binding yet.
RunRegisterValidation ==
  /\ ValIdle
  /\ \E a \in RegArgs :
       /\ a[1] \notin CustomTagSet
       /\ vop' = "RegisterValidation"
       /\ vin' = [ tag |-> a[1], fn |-> a[2] ]
       /\ IF registrationRefused(a[1], a[2])
            THEN vout' = [ err |-> "error" ] /\ UNCHANGED validate
            ELSE vout' = [ err |-> "nil" ]
                 /\ validate' = registerValidation(validate, a[1], a[2])
  /\ UNCHANGED restVars

\* The caller has the result; the next call may begin.
ReturnV ==
  /\ vop # "none"
  /\ vop' = "none"
  /\ vin' = << >>
  /\ vout' = << >>
  /\ UNCHANGED << validate, restVars >>

NextV ==
  \/ CallPredicate
  \/ RunValidate
  \/ RunValidateNested
  \/ RunValidateVar
  \/ RunRegisterValidation
  \/ ReturnV

SpecV == InitV /\ [][NextV]_vars

(***************************************************************************)
(* Part II, properties.                                                    *)
(***************************************************************************)
StringTags == { "mz_phone", "mz_plate", "txova_pin" }

\* The zero and empty values of the field types a custom tag is declared on.
ZeroValues(tag) ==
  IF tag \in StringTags THEN { Str("") }
  ELSE IF tag = "mz_location" THEN { Location(0, 0), NilSlice, SliceOf(<< >>) }
  ELSE { v \in NumberValues : v.n = 0 /\ v.big = 0 }

\* C6 as claimed: each of the six custom predicates, called on the zero or
\* empty value of its field type, returns true.
C6_EmptyIsValid ==
  (vop = "predicate" /\ vin.value \in ZeroValues(vin.tag)) => vout.ok

\* C6 as amended: on the empty string mz_phone, mz_plate and txova_pin return
\* true; on the number 0 txova_money and txova_rating return false; on the
\* zero location record, the nil sequence and the empty sequence mz_location
\* returns false.
C6_ZeroValueVerdicts ==
  (vop = "predicate" /\ vin.value \in ZeroValues(vin.tag))
    => (vout.ok <=> vin.tag \in StringTags)

\* txova_money was called with int64(0) and returned false.
C6_Witness ==
  /\ vop = "predicate"
  /\ vin.tag = "txova_money"
  /\ vin.value = Num("int64", 0)
  /\ ~vout.ok

\* A rule chain of `required` followed by one of the six custom rules.
RequiredCustom(rules) ==
  /\ Len(rules) = 2
  /\ rules[1].tag = "required"
  /\ rules[2].tag \in CustomTagSet

\* The field is under required,<custom rule> and holds a zero or empty value
\* of the custom rule's field type.
RequiredCustomOnEmpty(f) ==
  RequiredCustom(f.rules) /\ f.value \in ZeroValues(f.rules[2].tag)

\* The failures a result holds for a field name.
failuresFor(result, name) ==
  { i \in 1..Len(result.errs) : result.errs[i].field = name }

\* Exactly one failure for the name, and it carries the code.
oneFailure(result, name, code) ==
  /\ Cardinality(failuresFor(result, name)) = 1
  /\ \A i \in failuresFor(result, name) : result.errs[i].code = code

\* The fields of the validated record, or the one value ValidateVar was given
\* as a field without a name.
CheckedFields ==
  IF vop = "Validate" /\ vin.kind = "struct" THEN vin.fields
  ELSE IF vop = "ValidateVar" THEN << Field("", "", vin.rules, vin.value) >>
  ELSE << >>

Returned == vop \in { "Validate", "ValidateVar" } /\ vout.outcome = "returned"

\* C7 as claimed: when a validation returns, every field under
\* `required,<custom rule>` that holds its zero or empty value has exactly one
\* failure, and that failure has code Required.
C7_RequiredOnly ==
  Returned =>
    \A i \in 1..Len(CheckedFields) :
      LET f == CheckedFields[i]
      IN RequiredCustomOnEmpty(f)
           => oneFailure(vout, fieldName(validate, f), CodeRequired)

\* C7 as amended: when a validation returns, every field under
\* `required,<one of the six custom rules>` has exactly one failure with code
\* Required if it holds the zero value of its type ("", 0, the zero record,
\* the nil sequence), and exactly one failure with code OutsideServiceArea if
\* it holds an empty sequence that is not nil, which `required` lets pass.
C7_RequiredOnZeroValue ==
  Returned =>
    \A i \in 1..Len(CheckedFields) :
      LET f == CheckedFields[i]
      IN RequiredCustomOnEmpty(f)
           => oneFailure(vout, fieldName(validate, f),
                         IF isZero(f.value) THEN CodeRequired ELSE CodeOutsideServiceArea)

\* A record was validated whose phone field is "" under required,mz_phone,
\* and the one failure for phone is Required.
C7_Witness ==
  /\ vop = "Validate"
  /\ vin.kind = "struct"
  /\ vout.outcome = "returned"
  /\ \E i \in 1..Len(vin.fields) :
       /\ vin.fields[i].rules = << required, Rule("mz_phone", "") >>
       /\ vin.fields[i].value = Str("")
       /\ oneFailure(vout, "phone", CodeRequired)

\* The field violates one of its rules: a rule of its chain fails, and no
\* omitempty before it ends the chain for want of a value.
violates(reg, f) ==
  \E k \in 1..Len(f.rules) :
    /\ f.rules[k].tag # "omitempty"
    /\ ~holds(reg, f.rules[k], f.value)
    /\ \A j \in 1..(k - 1) : f.rules[j].tag = "omitempty" => hasValue(f.value)

\* C8: Validate of a record returns nil when no field violates a rule, and
\* otherwise one failure per violating field, in the order of the fields,
\* never only the first; it fails to return only for a record that names a
\* rule without a binding.
C8_AllViolationsReported ==
  (vop = "Validate" /\ vin.kind = "struct") =>
    LET V == { i \in 1..Len(vin.fields) : violates(validate, vin.fields[i]) }
    IN IF vout.outcome = "returned"
         THEN /\ vout.isnil <=> V = {}
              /\ Len(vout.errs) = Cardinality(V)
              /\ \A i \in V :
                   vout.errs[Cardinality({ j \in V : j <= i })].field
                     = fieldName(validate, vin.fields[i])
         ELSE \E i \in 1..Len(vin.fields) : ~allBound(validate, vin.fields[i].rules)

\* A record with a passing first field and at least two violating fields
\* after it was validated, and every violating field has its failure.
C8_Witness ==
  /\ vop = "Validate"
  /\ vin.kind = "struct"
  /\ vout.outcome = "returned"
  /\ Len(vin.fields) >= 3
  /\ ~violates(validate, vin.fields[1])
  /\ Cardinality({ i \in 1..Len(vin.fields) : violates(validate, vin.fields[i]) }) >= 2
  /\ Len(vout.errs) >= 2

\* C9: every failure Validate or ValidateVar returns carries one of the seven
\* codes, the failure that wraps the engine's refusal of a non-record too.
C9_ClosedCodeSet ==
  Returned => \A i \in 1..Len(vout.errs) : vout.errs[i].code \in Codes

\* Validate was given something that is no record and returned the wrapping
\* failure on field "_".
C9_Witness ==
  /\ vop = "Validate"
  /\ vin.kind # "struct"
  /\ vout.outcome = "returned"
  /\ Len(vout.errs) = 1
  /\ vout.errs[1].field = "_"
  /\ vout.errs[1].code = CodeInvalidFormat

\* A rule name in none of the translator's tables.
inNoTable(tag) ==
  /\ tag \notin SpecialTags
  /\ tag \notin FormatTags
  /\ ~isLowerBoundTag(tag)
  /\ ~isUpperBoundTag(tag)

\* C10: when a validation returns and the rule a field violated is in none of
\* the translator's tables, the field has exactly one failure, with code
\* InvalidFormat, a message that contains the rule name and the field's value
\* as its value.
C10_FallbackInvalidFormat ==
  Returned =>
    \A i \in 1..Len(CheckedFields) :
      LET f == CheckedFields[i]
          e == traverseField(validate, f, f.rules)
      IN (e # << >> /\ inNoTable(e[1].tag)) =>
           /\ oneFailure(vout, fieldName(validate, f), CodeInvalidFormat)
           /\ \A k \in failuresFor(vout, fieldName(validate, f)) :
                /\ Contains(vout.errs[k].message, e[1].tag)
                /\ vout.errs[k].value = f.value

\* A record whose field violates the caller's own rule test_custom was
\* validated and came back with the fallback failure.
C10_Witness ==
  /\ vop = "Validate"
  /\ vin.kind = "struct"
  /\ vout.outcome = "returned"
  /\ vin.fields[1].rules = << Rule("test_custom", "") >>
  /\ Len(vout.errs) = 1
  /\ vout.errs[1].code = CodeInvalidFormat
  /\ Contains(vout.errs[1].message, "test_custom")
  /\ vout.errs[1].value = vin.fields[1].value

\* The first failure of the field's rule chain, << >> when it has none.
firstFailure(f) == traverseField(validate, f, f.rules)

\* The failures the result holds for the field are all the given one.
reportedAs(f, failure) ==
  /\ failuresFor(vout, fieldName(validate, f)) # {}
  /\ \A k \in failuresFor(vout, fieldName(validate, f)) : vout.errs[k] = failure

\* C11 as claimed: when a validation returns and a field violated min, the
\* failure is TooShort (minimum: the digits of the parameter, value: the
\* length of the text) whenever the field's kind is text, and
\* OutOfRange(parameter, infinity, value) otherwise; for max it is TooLong
\* and OutOfRange(-infinity, parameter, value).
C11_LengthOfEveryTextKind ==
  Returned =>
    \A i \in 1..Len(CheckedFields) :
      LET f == CheckedFields[i]
          e == firstFailure(f)
          name == fieldName(validate, f)
      IN /\ (e # << >> /\ e[1].tag = "min") =>
              reportedAs(f, IF f.value.kind = "string"
                              THEN TooShortWithValue(name, parseIntParam(e[1].param),
                                                     len(f.value.s))
                              ELSE OutOfRangeWithValue(name, Str(e[1].param),
                                                       Str(Infinity), f.value))
         /\ (e # << >> /\ e[1].tag = "max") =>
              reportedAs(f, IF f.value.kind = "string"
                              THEN TooLongWithValue(name, parseIntParam(e[1].param),
                                                    len(f.value.s))
                              ELSE OutOfRangeWithValue(name, Str("-" \o Infinity),
                                                       Str(e[1].param), f.value))

\* The tags whose translation the dispatch order fixes, apart from min and
\* max.
DispatchedTags ==
  { "required", "len", "oneof", "email", "url", "mz_phone", "mz_plate",
    "txova_pin", "mz_location", "txova_money", "txova_rating", "gt", "gte",
    "lt", "lte" }

\* The failure of the dispatch order, first match wins: the engine's own
\* tags, then the table of fixed descriptions, then the tags with a code of
\* their own, then the comparisons.
firstMatch(field, tag, param, value) ==
  IF tag = "required"
    THEN ValidationError(field, CodeRequired, field \o " is required", NilValue)
  ELSE IF tag = "len"
    THEN InvalidFormatWithValue(field, "length " \o param, value)
  ELSE IF tag = "oneof"
    THEN InvalidOptionWithValue(field, Split(param, " "), value)
  ELSE IF tag = "email"
    THEN InvalidFormatWithValue(field, "valid email address", value)
  ELSE IF tag = "url"
    THEN InvalidFormatWithValue(field, "valid URL", value)
  ELSE IF tag = "mz_phone"
    THEN InvalidFormatWithValue(field, "valid Mozambique phone number", value)
  ELSE IF tag = "mz_plate"
    THEN InvalidFormatWithValue(field, "valid Mozambique license plate", value)
  ELSE IF tag = "txova_pin"
    THEN InvalidFormatWithValue(field, "4-digit PIN (no sequential or repeated)", value)
  ELSE IF tag = "mz_location"
    THEN ValidationError(field, CodeOutsideServiceArea,
                         field \o " is outside the service area", NilValue)
  ELSE IF tag = "txova_money"
    THEN OutOfRangeWithValue(field, Num("int", 1), Str(Infinity), value)
  ELSE IF tag = "txova_rating"
    THEN OutOfRangeWithValue(field, Num("int", 1), Num("int", 5), value)
  ELSE IF tag \in { "gt", "gte" }
    THEN OutOfRangeWithValue(field, Str(param), Str(Infinity), value)
  ELSE OutOfRangeWithValue(field, Str("-" \o Infinity), Str(param), value)

\* C12: when a validation returns and the rule a field violated is required,
\* len, oneof, email, url, mz_phone, mz_plate, txova_pin, mz_location,
\* txova_money, txova_rating, gt, gte, lt or lte, the failure reported for the
\* field is the one the first-match-wins dispatch order gives that rule.
C12_FirstMatchDispatch ==
  Returned =>
    \A i \in 1..Len(CheckedFields) :
      LET f == CheckedFields[i]
          e == firstFailure(f)
      IN (e # << >> /\ e[1].tag \in DispatchedTags) =>
           reportedAs(f, firstMatch(fieldName(validate, f), e[1].tag,
                                    e[1].param, f.value))

\* A ride request with a sequential PIN and a negative fare was validated:
\* pin came back InvalidFormat with the PIN description, fare OutOfRange.
C12_Witness ==
  /\ vop = "Validate"
  /\ vin.kind = "struct"
  /\ vout.outcome = "returned"
  /\ \E i, j \in 1..Len(vout.errs) :
       /\ vout.errs[i].field = "pin"
       /\ vout.errs[i].code = CodeInvalidFormat
       /\ Contains(vout.errs[i].message, "4-digit PIN")
       /\ vout.errs[j].field = "fare"
       /\ vout.errs[j].code = CodeOutOfRange
       /\ vout.errs[j].value = Num("int64", -100)

\* The record has a field under one of the names.
hasNamed(v, names) ==
  \E i \in 1..Len(v.sub), k \in 1..Len(names) : v.sub[i].name = names[k]

\* A shape the predicate of the tag cannot interpret: for mz_location a
\* string, a sequence shorter than 2, a record without a latitude or without
\* a longitude field; for txova_money and txova_rating a string.
cannotInterpret(tag, v) ==
  IF tag = "mz_location"
    THEN \/ v.kind = "string"
         \/ v.kind = "slice" /\ Len(v.sub) < 2
         \/ v.kind = "struct" /\ (~hasNamed(v, LatNames) \/ ~hasNamed(v, LonNames))
    ELSE tag \in { "txova_money", "txova_rating" } /\ v.kind = "string"

\* C13 as claimed: when a validation returns and a field violated mz_location,
\* txova_money or txova_rating with a shape the predicate cannot interpret,
\* every failure reported for the field has code InvalidFormat.
C13_UnreadableShapeIsInvalidFormat ==
  Returned =>
    \A i \in 1..Len(CheckedFields) :
      LET f == CheckedFields[i]
          e == firstFailure(f)
      IN (e # << >> /\ cannotInterpret(e[1].tag, f.value)) =>
           \A k \in failuresFor(vout, fieldName(validate, f)) :
             vout.errs[k].code = CodeInvalidFormat

\* The record has a field of a floating-point kind under one of the names.
hasUsable(v, names) ==
  \E i \in 1..Len(v.sub), k \in 1..Len(names) :
    v.sub[i].name = names[k] /\ v.sub[i].kind \in FloatKinds

\* A value mz_location can interpret: a record with a usable latitude and a
\* usable longitude field, or a sequence of at least 2 elements whose first
\* two are floating-point.
locationShaped(v) ==
  \/ v.kind = "struct" /\ hasUsable(v, LatNames) /\ hasUsable(v, LonNames)
  \/ /\ v.kind = "slice"
     /\ Len(v.sub) >= 2
     /\ v.sub[1].kind \in FloatKinds
     /\ v.sub[2].kind \in FloatKinds

\* The kinds the predicate of a custom tag interprets.
interprets(tag, v) ==
  IF tag \in StringTags THEN v.kind = "string"
  ELSE IF tag = "mz_location" THEN locationShaped(v)
  ELSE IF tag = "txova_money" THEN v.kind \in IntKinds \cup UintKinds \cup FloatKinds
  ELSE v.kind \in IntKinds \cup UintKinds

\* C14: each of the six custom predicates answers every call with true or
\* false, and with false when the field's kind or shape is one it cannot
\* interpret; mz_location answers false for every value that is neither a
\* record with a usable latitude and a usable longitude nor a sequence of at
\* least 2 elements that starts with two floating-point numbers.
C14_FailClosed ==
  (vop = "predicate" /\ vin.tag \in CustomTagSet) =>
    /\ vout.ok \in BOOLEAN
    /\ ~interprets(vin.tag, vin.value) => ~vout.ok

\* mz_location was called with a record that has a latitude only and
\* answered false.
C14_Witness ==
  /\ vop = "predicate"
  /\ vin.tag = "mz_location"
  /\ vin.value = StructOf(<< Sub("Lat", "float64", -259) >>)
  /\ ~vout.ok

\* The part of a json annotation before its first comma.
jsonName(json) ==
  LET k == CHOOSE k \in 0..Len(json) :
             /\ k = Len(json) \/ SubSeq(json, k + 1, k + 1) = ","
             /\ \A j \in 1..k : SubSeq(json, j, j) # ","
  IN SubSeq(json, 1, k)

\* The name a failure of the field is to carry.
displayName(f) ==
  IF jsonName(f.json) # "" /\ jsonName(f.json) # "-" THEN jsonName(f.json) ELSE f.name

\* C15: Validate of a record reports the failure of each violating field
\* under the part of the field's json annotation before the first comma when
\* that part is neither empty nor "-", and under the field's structural name
\* otherwise; the naming function gives every field that has a structural
\* name a name that is not empty.
C15_JsonNameOrStructuralName ==
  (vop = "Validate" /\ vin.kind = "struct" /\ vout.outcome = "returned") =>
    LET V == { i \in 1..Len(vin.fields) : violates(validate, vin.fields[i]) }
    IN /\ Len(vout.errs) = Cardinality(V)
       /\ \A i \in V :
            vout.errs[Cardinality({ j \in V : j <= i })].field
              = displayName(vin.fields[i])
       /\ \A i \in 1..Len(vin.fields) :
            vin.fields[i].name # "" => tagNameFunc(vin.fields[i]) # ""

\* The record of the naming test was validated with every field empty: the
\* failures are named user_name, Email, Phone, notes and Avatar.
C15_Witness ==
  /\ vop = "Validate"
  /\ vin.kind = "struct"
  /\ vout.outcome = "returned"
  /\ Len(vout.errs) = 5
  /\ [ i \in 1..5 |-> vin.fields[i].json ]
       = << "user_name", "-", "", "notes,omitempty", ",omitempty" >>
  /\ [ i \in 1..5 |-> vout.errs[i].field ]
       = << "user_name", "Email", "Phone", "notes", "Avatar" >>

\* The counterpart of a pair value: the sequence of a record's pair, the
\* record of a sequence's first two elements.
counterpart(v) ==
  IF v.kind = "struct"
    THEN SliceOf(<< element(v.sub[1]), element(v.sub[2]) >>)
    ELSE StructOf(<< [ v.sub[1] EXCEPT !.name = "Lat" ],
                     [ v.sub[2] EXCEPT !.name = "Lon" ] >>)

\* The pair lies inside the bounding box, bounds included (degrees in
\* tenths); what is not a number lies nowhere.
insideBox(lat, lon) ==
  /\ ~lat.nan /\ ~lon.nan
  /\ -269 <= lat.n /\ lat.n <= -103
  /\ 302 <= lon.n /\ lon.n <= 410

\* C16 as claimed: for every pair of float64, mz_location gives the record
\* {Lat, Lon} and the sequence [lat, lon] (or a longer one that begins with
\* the pair) the same result, and the result is true exactly when the pair
\* lies inside the bounding box -26.9 <= lat <= -10.3, 30.2 <= lon <= 41.0.
C16_SameResultInsideBox ==
  (vop = "predicate" /\ vin.tag = "mz_location" /\ vin.value \in PairValues) =>
    /\ vout.ok = validateMzLocation(counterpart(vin.value))
    /\ vout.ok <=> insideBox(vin.value.sub[1], vin.value.sub[2])

\* The field of the first of the names the record has with a floating-point
\* kind, Float32 or Float64; << >> when it has none.
RECURSIVE firstFloating(_, _)
firstFloating(v, names) ==
  IF names = << >> THEN << >>
  ELSE LET hits == { i \in 1..Len(v.sub) :
                       v.sub[i].name = Head(names) /\ v.sub[i].kind \in FloatKinds }
       IN IF hits # {} THEN << v.sub[CHOOSE i \in hits : TRUE] >>
          ELSE firstFloating(v, Tail(names))

\* C17 as claimed: for a record, mz_location takes the latitude from the
\* first of Lat, Latitude, lat, latitude that is present with kind Float32 or
\* Float64 and the longitude from the first such of Lon, Lng, Longitude, lon,
\* lng, longitude, and its result is that of the bounding-box check of the
\* pair so resolved.
C17_FirstFloatingName ==
  (vop = "predicate" /\ vin.tag = "mz_location" /\ vin.value.kind = "struct") =>
    LET lat == firstFloating(vin.value, LatNames)
        lon == firstFloating(vin.value, LonNames)
    IN (lat # << >> /\ lon # << >>) =>
         (vout.ok <=> ValidateInMozambique(lat[1], lon[1]))

NumericKinds == IntKinds \cup UintKinds \cup FloatKinds

\* The width in bits of an integer kind.
kindBits(k) ==
  IF k \in { "int8", "uint8" } THEN 8
  ELSE IF k \in { "int16", "uint16" } THEN 16
  ELSE IF k \in { "int32", "uint32" } THEN 32
  ELSE IF k \in { "int", "uint" } THEN intSize
  ELSE 64

\* The integer kind k can represent the whole number m (when big = 0), or
\* m + 2^big, or m - 2^(-big), for a small m.
inRange(k, m, big) ==
  LET b == kindBits(k)
  IN IF big = 0
       THEN IF k \in IntKinds
              THEN /\ b = 8 => (m >= -128 /\ m <= 127)
                   /\ b = 16 => (m >= -32768 /\ m <= 32767)
              ELSE /\ m >= 0
                   /\ b = 8 => m <= 255
                   /\ b = 16 => m <= 65535
     ELSE IF big > 0 THEN (IF k \in IntKinds THEN big < b - 1 ELSE big < b)
     ELSE k \in IntKinds /\ -big <= b - 1

\* The kind k can represent the number of the value v (floats are in tenths,
\* integers in units).
canHold(k, v) ==
  IF k \in FloatKinds THEN v.big = 0
  ELSE IF v.kind \in FloatKinds
    THEN v.big = 0 /\ v.n % 10 = 0 /\ inRange(k, v.n \div 10, 0)
    ELSE inRange(k, v.n, v.big)

\* The number of v as a value of kind k.
recast(v, k) ==
  [ v EXCEPT !.kind = k, !.type = k,
             !.n = IF k \in FloatKinds /\ v.kind \notin FloatKinds THEN v.n * 10
                   ELSE IF k \notin FloatKinds /\ v.kind \in FloatKinds THEN v.n \div 10
                   ELSE v.n ]

\* C18: txova_money returns true exactly when the number is greater than
\* zero, for a field of every signed, unsigned and floating-point kind, and
\* gives the same answer for the same number in every kind and width that can
\* represent it; for a field of any other kind, a string holding "100"
\* included, it returns false.
C18_MoneyPositiveInEveryWidth ==
  (vop = "predicate" /\ vin.tag = "txova_money") =>
    IF vin.value.kind \in NumericKinds
      THEN /\ vout.ok <=> \/ vin.value.big > 0
                          \/ vin.value.big = 0 /\ vin.value.n > 0
           /\ \A k \in NumericKinds :
                canHold(k, vin.value)
                  => validateTxovaMoney(recast(vin.value, k)) = vout.ok
      ELSE ~vout.ok

\* txova_money was called with the uint64 2^63+3, above the largest int64,
\* and returned true.
C18_Witness ==
  /\ vop = "predicate"
  /\ vin.tag = "txova_money"
  /\ vin.value = BigNum("uint64", 3, 63)
  /\ vout.ok

\* C19: for a field of every signed and unsigned integer width, on either
\* platform, txova_rating returns true exactly when the number is one of
\* 1..5; a wide number that narrowing to the platform's int would wrap into
\* 1..5 is rejected.
C19_RatingBeforeNarrowing ==
  (vop = "predicate" /\ vin.tag = "txova_rating"
      /\ vin.value.kind \in IntKinds \cup UintKinds) =>
    (vout.ok <=> /\ vin.value.big = 0
                 /\ vin.value.n >= 1
                 /\ vin.value.n <= 5)

\* On a platform with a 32-bit int, txova_rating was called with the int64
\* 2^32+3, whose low 32 bits are 3, and returned false.
C19_Witness ==
  /\ vop = "predicate"
  /\ vin.tag = "txova_rating"
  /\ intSize = 32
  /\ vin.value = BigNum("int64", 3, 32)
  /\ toInt(vin.value) = [ n |-> 3, big |-> 0 ]
  /\ ~vout.ok

\* The rule chain of a vehicle's year field.
YearRules == << required, Rule("txova_vehicle_year", "") >>

\* C20 as claimed: with no RegisterValidation of txova_vehicle_year before
\* it, Validate of a record whose year field is under
\* `required,txova_vehicle_year` returns; it reports no failure for the field
\* when the year is from 2010 on and not after next year (2010, 2020), and
\* exactly one failure, with code OutOfRange, when the year is another number
\* (-1, 2005, 2009).
C20_VehicleYearBuiltIn ==
  (vop = "Validate" /\ vin.kind = "struct"
      /\ validate.validations["txova_vehicle_year"] = NoFn) =>
    \A i \in 1..Len(vin.fields) :
      LET f == vin.fields[i]
      IN (f.rules = YearRules /\ f.value.n # 0) =>
           /\ vout.outcome = "returned"
           /\ IF f.value.n \in { 2010, 2020 }
                THEN failuresFor(vout, fieldName(validate, f)) = {}
                ELSE oneFailure(vout, fieldName(validate, f), CodeOutOfRange)

(***************************************************************************)
(* Registration of a bound name.                                           *)
(***************************************************************************)
\* The tag of the call is empty or has a binding in the registry.
boundOrEmpty(tag) ==
  tag = "" \/ (tag \in TagUniverse /\ validate.validations[tag] # NoFn)

\* C21 as claimed: a RegisterValidation call whose tag is empty or already
\* has a binding, one of the six custom tags included, returns an error, and
\* the registry is as it was before the call.
C21_RefusesBoundOrEmptyTag ==
  [][ \A p \in Procs :
        ( /\ pc[p] = "gotValidator"
          /\ call[p].op = "RegisterValidation"
          /\ pc'[p] # pc[p]
          /\ boundOrEmpty(call[p].tag) )
          => /\ pc'[p] = "returned"
             /\ ret'[p] = "error"
             /\ validate' = validate ]_vars

(***************************************************************************)
(* Part III.  A caller's ValidationErrors collection: it starts nil or     *)
(* empty, or is what Validate returned, grows by Add and AddAll, and is    *)
(* looked into and serialized.                                             *)
(***************************************************************************)
MaxEntries == 3

\* errors_test.go: the failures the collection tests add.
SampleErrors ==
  { Required("email"), Required("phone"),
    InvalidFormatWithValue("phone", "+258XXXXXXXXX", Str("123")),
    TooShortWithValue("password", 8, 5) }

SampleFields == { "email", "phone", "password", "name" }

\* The collections AddAll is handed.
SampleCollections ==
  { NilCollection, EmptyCollection,
    Collection(<< TooShortWithValue("password", 8, 5),
                  InvalidFormatWithValue("phone", "+258XXXXXXXXX", Str("123")) >>),
    Collection(<< Required("email"), Required("email") >>) }

InitE ==
  /\ onceDone = 1
  /\ onceM = NoProc
  /\ validate = AfterInit
  /\ pc = [ p \in Procs |-> "idle" ]
  /\ call = [ p \in Procs |-> NoCall ]
  /\ istep = [ p \in Procs |-> 0 ]
  /\ arrival = [ p \in Procs |-> "none" ]
  /\ ret = [ p \in Procs |-> "none" ]
  /\ ncalls = 1
  /\ initRuns = 1
  /\ crashed = FALSE
  /\ ValIdle
  /\ intSize = 64
  /\ ve \in { NilCollection, EmptyCollection }

partOne ==
  << onceDone, onceM, validate, pc, call, istep, arrival, ret, ncalls, initRuns,
     crashed, intSize >>

\* errs := Validate(s), of a record that names bound rules only.
CollectValidate ==
  /\ ValIdle
  /\ \E s \in { Record(fs) : fs \in FieldsOf(OptionalFields) } :
       LET r == Validate(validate, s)
       IN /\ r.outcome = "returned"
          /\ vop' = "Validate"
          /\ vin' = [ before |-> ve, record |-> s ]
          /\ vout' = r
          /\ ve' = [ isnil |-> r.isnil, errs |-> r.errs ]
  /\ UNCHANGED partOne

\* errs.Add(err).
CallAdd ==
  /\ ValIdle
  /\ Len(ve.errs) < MaxEntries
  /\ \E err \in SampleErrors :
       /\ vop' = "Add"
       /\ vin' = [ before |-> ve, added |-> << err >> ]
       /\ vout' = << >>
       /\ ve' = Add(ve, err)
  /\ UNCHANGED partOne

\* errs.AddAll(more).
CallAddAll ==
  /\ ValIdle
  /\ \E more \in SampleCollections :
       /\ Len(ve.errs) + Len(more.errs) <= MaxEntries
       /\ vop' = "AddAll"
       /\ vin' = [ before |-> ve, added |-> more.errs ]
       /\ vout' = << >>
       /\ ve' = AddAll(ve, more)
  /\ UNCHANGED partOne

\* The lookups, all called on the collection as it is; each has a value
\* receiver and none assigns to an entry.
CallLookups ==
  /\ ValIdle
  /\ \E field \in SampleFields, code \in Codes :
       /\ vop' = "lookups"
       /\ vin' = [ before |-> ve, field |-> field, code |-> code ]
       /\ vout' = [ HasErrors |-> HasErrors(ve),
                    HasField |-> HasField(ve, field),
                    GetByField |-> GetByField(ve, field),
                    GetByCode |-> GetByCode(ve, code),
                    First |-> First(ve),
                    Fields |-> Fields(ve),
                    ToError |-> ToError(ve) ]
  /\ UNCHANGED << partOne, ve >>

\* json.Marshal(errs).
CallMarshalJSON ==
  /\ ValIdle
  /\ vop' = "MarshalJSON"
  /\ vin' = [ before |-> ve ]
  /\ vout' = [ json |-> MarshalJSON(ve) ]
  /\ UNCHANGED << partOne, ve >>

NextE ==
  \/ CollectValidate
  \/ CallAdd
  \/ CallAddAll
  \/ CallLookups
  \/ CallMarshalJSON
  \/ ReturnV

SpecE == InitE /\ [][NextE]_vars

\* C22: serializing a collection with no entries, the empty one and the nil
\* one that Validate returns on success alike, gives the array [], never
\* null.
C22_EmptySerializesAsArray ==
  (vop = "MarshalJSON" /\ Len(ve.errs) = 0) => vout.json = "[]"

\* The nil collection, which is what Validate returns on success, was
\* serialized, and the text is [].
C22_Witness ==
  /\ vop = "MarshalJSON"
  /\ ve = NilCollection
  /\ vout.json = "[]"

\* C23: every Add and AddAll leaves the collection as the entries it held
\* before the call, unchanged and in their order, followed by the added
\* entries in the order given; nothing is deduplicated, reordered or dropped.
C23_AddsConcatenate ==
  vop \in { "Add", "AddAll" } => ve.errs = vin.before.errs \o vin.added

\* After three Add calls the collection holds two entries for phone with
\* different codes and a third that is identical to the first.
C23_Witness ==
  /\ vop = "Add"
  /\ ve.errs = << Required("phone"),
                  InvalidFormatWithValue("phone", "+258XXXXXXXXX", Str("123")),
                  Required("phone") >>

\* C24 as claimed: when a validation returns and a field violated txova_pin,
\* no failure reported for the field carries the PIN that was submitted.
C24_PinValueMasked ==
  Returned =>
    \A i \in 1..Len(CheckedFields) :
      LET f == CheckedFields[i]
          e == firstFailure(f)
      IN (e # << >> /\ e[1].tag = "txova_pin") =>
           \A k \in failuresFor(vout, fieldName(validate, f)) :
             vout.errs[k].value # f.value

\* One failure and no more, under the field name, with code InvalidFormat.
wrapped(result, field) ==
  /\ result.outcome = "returned"
  /\ ~result.isnil
  /\ Len(result.errs) = 1
  /\ result.errs[1].field = field
  /\ result.errs[1].code = CodeInvalidFormat

\* C25: Validate of something that is not a record (nil, a number, a string)
\* returns a collection of exactly one failure, with field "_" and code
\* InvalidFormat, never nil and never a crash; ValidateVar turns the same
\* answer of the engine into one failure with field "value".
C25_WholeInputRejected ==
  /\ (vop = "Validate" /\ vin.kind # "struct") => wrapped(vout, "_")
  /\ \A k \in { "invalid", "int", "string" } :
       wrapped(afterVar(EngineStruct(validate, NonRecord(k))), "value")

\* Validate was called with a number and returned the one failure on "_"
\* whose message is the engine's.
C25_Witness ==
  /\ vop = "Validate"
  /\ vin = NonRecord("int")
  /\ wrapped(vout, "_")
  /\ vout.errs[1].message = "validator: (nil int)"

\* The entries of the collection at the positions S, in their order.
entriesAt(S) ==
  [ k \in 1..Cardinality(S) |->
      ve.errs[CHOOSE i \in S : Cardinality({ j \in S : j < i }) = k - 1] ]

\* The position of the first entry for a field name.
firstIndex(field) ==
  CHOOSE i \in 1..Len(ve.errs) :
    /\ ve.errs[i].field = field
    /\ \A j \in 1..(i - 1) : ve.errs[j].field # field

\* C26: on every collection and for every field name, HasField holds iff
\* GetByField is not empty iff the name is in Fields; Fields lists each name
\* of an entry once, in the order of first occurrence; GetByField and
\* GetByCode give the matching entries in their original order; ToError is
\* nil iff the collection is empty; and the collection is as before.
C26_LookupsAgree ==
  vop = "lookups" =>
    LET fs == vout.Fields
    IN /\ vout.HasField <=> vout.GetByField.errs # << >>
       /\ vout.HasField <=> \E k \in 1..Len(fs) : fs[k] = vin.field
       /\ { fs[k] : k \in 1..Len(fs) } = { ve.errs[i].field : i \in 1..Len(ve.errs) }
       /\ \A k, l \in 1..Len(fs) : k < l => firstIndex(fs[k]) < firstIndex(fs[l])
       /\ vout.GetByField.errs
            = entriesAt({ i \in 1..Len(ve.errs) : ve.errs[i].field = vin.field })
       /\ vout.GetByCode.errs
            = entriesAt({ i \in 1..Len(ve.errs) : ve.errs[i].code = vin.code })
       /\ vout.ToError.isnil <=> Len(ve.errs) = 0
       /\ ve = vin.before

\* The lookups ran on a collection of three entries, two of them for phone
\* with another entry between: GetByField("phone") has the two, Fields has
\* phone once and before email.
C26_Witness ==
  /\ vop = "lookups"
  /\ vin.field = "phone"
  /\ ve.errs = << Required("phone"), Required("email"),
                  InvalidFormatWithValue("phone", "+258XXXXXXXXX", Str("123")) >>
  /\ vout.GetByField.errs = << ve.errs[1], ve.errs[3] >>
  /\ vout.Fields = << "phone", "email" >>

\* C27 as claimed: when a validation returns, every TooShort failure carries
\* as its value a length below the minimum of the violated rule, and every
\* TooLong failure a length above the maximum, for text with characters of
\* more than one byte too.
C27_ReportedLengthViolatesBound ==
  Returned =>
    \A i \in 1..Len(CheckedFields) :
      LET f == CheckedFields[i]
          e == firstFailure(f)
      IN e # << >> =>
           \A k \in failuresFor(vout, fieldName(validate, f)) :
             /\ vout.errs[k].code = CodeTooShort
                  => vout.errs[k].value.n < parseIntParam(e[1].param)
             /\ vout.errs[k].code = CodeTooLong
                  => vout.errs[k].value.n > parseIntParam(e[1].param)

\* The number of a numeric value is at least 1 (floats are in tenths).
atLeastOne(v) ==
  \/ v.big > 0
  \/ v.big = 0 /\ v.n >= (IF v.kind \in FloatKinds THEN 10 ELSE 1)

\* C28 as claimed: for a field of every numeric kind, floating-point
\* included, txova_money accepts the value exactly when it is at least 1, the
\* minimum its failure advertises.
C28_MoneyAgreesWithAdvertisedRange ==
  (vop = "predicate" /\ vin.tag = "txova_money" /\ vin.value.kind \in NumericKinds)
    => (vout.ok <=> atLeastOne(vin.value))

\* C29: txova_rating returns false for a field of a floating-point kind
\* whatever its value, 1.0 to 5.0 included, while txova_money returns true
\* for a floating-point field above zero.
C29_RatingRejectsFloats ==
  (vop = "predicate" /\ vin.value.kind \in FloatKinds) =>
    /\ vin.tag = "txova_rating" => ~vout.ok
    /\ (vin.tag = "txova_money" /\ vin.value.n > 0) => vout.ok

\* txova_rating was called with the float64 3.0 and returned false.
C29_Witness ==
  /\ vop = "predicate"
  /\ vin.tag = "txova_rating"
  /\ vin.value = Num("float64", 30)
  /\ validateTxovaMoney(vin.value)
  /\ ~vout.ok

\* The names the failures of the fields are to carry, in order: of a field
\* that violates a rule its own display name; of a field that holds a struct
\* and violates none the names for the fields of that struct.
RECURSIVE failingNames(_)
failingNames(fields) ==
  IF fields = << >> THEN << >>
  ELSE LET f == Head(fields)
           omitted == \E k \in 1..Len(f.rules) :
                        f.rules[k].tag = "omitempty" /\ ~hasValue(f.value)
       IN (IF violates(validate, f) THEN << displayName(f) >>
           ELSE IF omitted THEN << >>
           ELSE failingNames(nestedFields(f.value)))
            \o failingNames(Tail(fields))

\* C30: Validate of a record that holds sub-records reports each failure
\* under the display name of the innermost failing field alone; when two
\* fields of different sub-records share a display name and both fail, both
\* failures carry that one name: HasField finds it, GetByField returns both
\* failures, and Fields lists the name once.
C30_InnermostNameAlone ==
  (vop = "ValidateNested" /\ vout.outcome = "returned") =>
    LET c == [ isnil |-> vout.isnil, errs |-> vout.errs ]
    IN /\ [ i \in 1..Len(vout.errs) |-> vout.errs[i].field ] = failingNames(vin.fields)
       /\ \A i \in 1..Len(vin.fields), j \in 1..Len(vin.fields) :
            LET fi == nestedFields(vin.fields[i].value)
                fj == nestedFields(vin.fields[j].value)
            IN (i < j /\ ~violates(validate, vin.fields[i])
                      /\ ~violates(validate, vin.fields[j])) =>
                 \A a \in 1..Len(fi), b \in 1..Len(fj) :
                   (/\ displayName(fi[a]) = displayName(fj[b])
                    /\ violates(validate, fi[a])
                    /\ violates(validate, fj[b])) =>
                     LET name == displayName(fi[a])
                     IN /\ HasField(c, name)
                        /\ Len(GetByField(c, name).errs) >= 2
                        /\ \E p \in 1..Len(vout.errs), q \in 1..Len(vout.errs) :
                             /\ p < q
                             /\ vout.errs[p].field = name
                             /\ vout.errs[q].field = name
                             /\ GetByField(c, name).errs[1] = vout.errs[p]
                             /\ GetByField(c, name).errs[2] = vout.errs[q]
                        /\ Cardinality({ k \in 1..Len(Fields(c)) : Fields(c)[k] = name }) = 1

\* Validate of a record whose Rider and Driver both hold a name that is too
\* short returned two failures of the field "name".
C30_Witness ==
  /\ vop = "ValidateNested"
  /\ vout.outcome = "returned"
  /\ Len(vin.fields) = 2
  /\ vin.fields[1].name = "Rider"
  /\ vin.fields[2].name = "Driver"
  /\ nestedFields(vin.fields[1].value)[1].value = Str("J")
  /\ nestedFields(vin.fields[2].value)[1].value = Str("J")
  /\ nestedFields(vin.fields[2].value)[2].value = Str("invalid")
  /\ Len(vout.errs) = 5
  /\ Len(GetByField([ isnil |-> vout.isnil, errs |-> vout.errs ], "name").errs) = 2
  /\ Fields([ isnil |-> vout.isnil, errs |-> vout.errs ])
       = << "name", "email", "phone", "password" >>

====
